---- MODULE Spec2Model ----
(***************************************************************************)
(* A model of the LiquidGlass React component of simple-liquid-glass:      *)
(* the instance-group coordinator, the quality controller, the ambient     *)
(* background sampler and the listener/observer registrations of the       *)
(* component's effects, the panel dimensions and the displacement map,     *)
(* the colour-string functions, the perPixel text strategy, the canvas     *)
(* backend's draw effect and composite pass, and the render targets and    *)
(* GPU resources of the two Three.js backends.                             *)
(*                                                                         *)
(* Fractions are kept in fixed point: multipliers and quality options in   *)
(* thousandths (0.35 is 350), the device pixel ratio in tenths (2.5 is 25),*)
(* alpha as a pair of naturals <<numerator, denominator>>, the effective   *)
(* resolution scale in millionths, the map's inset in 1/2000 px and its    *)
(* corner radius in quarters of a px, the composite pass's lengths in      *)
(* hundredths of a px.  Strings that the code inspects                     *)
(* character by character are sequences of one-character strings.          *)
(***************************************************************************)
EXTENDS Integers, Sequences, FiniteSets, TLC

VARIABLES
  mounted,            \* [Instances -> BOOLEAN]: the instance is in the tree
  props,              \* [Instances -> record]: the props of the last render
  LG_GROUPS,          \* the module-level Map: group name -> {count, listeners}
  groupMultiplier,    \* [Instances -> Nat]: useState(1), in thousandths
  unregister,         \* [Instances -> group | NoGroup]: the cleanup closure of the group effect
  lastBroadcast,      \* the last run of recomputeAndNotify (a recording listener)
  registry,           \* the listeners and observers held by window, the MediaQueryList and the observer APIs
  rafId,              \* [Instances -> 0..1]: the perPixel effect's pending animation frame
  env,                \* the device: viewport width, pixel ratio, cores, memory, reduced motion
  quality,            \* [Instances -> {preset, options}]: the quality state
  onWindow,           \* [Instances -> closure]: what the registered onWindow closes over
  lastDetect,         \* the last call of detectDevicePreset: its inputs and its result
  reported,           \* [Instances -> record]: what a recording onQualityChanged has seen
  ancestors,          \* the computed background colours from the panel's parent up to <html>
  effectiveTextColor, \* [Instances -> colour]: the text colour state
  lastSample,         \* the last run of update(): the chain it walked and what it found
  box,                \* [Instances -> <<w, h>>]: what getBoundingClientRect of the container gives
  dimensions,         \* [Instances -> {width, height}]: the dimensions state
  displacementDataUri, \* [Instances -> memo]: the displacement map of the last render
  lastCall,           \* the last call of a colour-string function: its arguments and its result
  canvas,             \* the canvas panel: the platform's WebGL2, its props, the outcome of its draw effect
  three,              \* [Backends -> record]: the Three.js panels, their GPU resources and their last frame
  pixel               \* [Instances -> record]: the panel's text elements, its mirrors, its mask and its queued frames

groupVars   == <<LG_GROUPS, groupMultiplier, unregister, lastBroadcast>>
lifeVars    == <<registry, rafId>>
qualityVars == <<env, quality, onWindow, lastDetect, reported>>
textVars    == <<ancestors, effectiveTextColor, lastSample>>
mapVars     == <<box, dimensions, displacementDataUri>>
callVars    == <<lastCall, canvas, three>>
vars == <<mounted, props, groupVars, lifeVars, qualityVars, textVars, mapVars, callVars, pixel>>

----------------------------------------------------------------------------
(* Bounds of the model *)

MaxInstances == 3
MaxDepth == 3

Instances == 1..MaxInstances
Groups == {"default", "panels"}
NoGroup == "(none)"

Max(a, b) == IF a >= b THEN a ELSE b
Min(a, b) == IF a <= b THEN a ELSE b

----------------------------------------------------------------------------
(* The cross-instance coordinator *)

\* 1 / Math.sqrt(count) in thousandths, rounded down
InvSqrtOf(count) ==
  CHOOSE m \in 0..1000 : m * m * count <= 1000000 /\ (m + 1) * (m + 1) * count > 1000000

\* The same, computed once for the counts a few panels reach
InvSqrtTable == [count \in 1..16 |-> InvSqrtOf(count)]
InvSqrt(count) == IF count \in DOMAIN InvSqrtTable THEN InvSqrtTable[count] ELSE InvSqrtOf(count)

\* Math.max(0.7, 1 / Math.sqrt(Math.max(1, g.count)))
MultiplierNoFloor(count) == InvSqrt(Max(1, count))
Multiplier(count) == Max(700, InvSqrt(Max(1, count)))

\* recomputeAndNotify(group): every listener of the group is called with the
\* multiplier; a listener is an instance's setGroupMultiplier, named by the instance.
recomputeAndNotify(G, gm, group) ==
  IF group \notin DOMAIN G THEN gm
  ELSE [i \in Instances |->
          IF i \in G[group].listeners THEN Multiplier(G[group].count) ELSE gm[i]]

\* What a recording listener sees of that run
broadcastOf(G, group, op, cb, existed) ==
  IF group \notin DOMAIN G
  THEN [op |-> "none", group |-> group, cb |-> cb, existed |-> existed,
        count |-> 0, multiplier |-> 0, to |-> {}, threw |-> {}, escaped |-> FALSE]
  ELSE [op |-> op, group |-> group, cb |-> cb, existed |-> existed,
        count |-> G[group].count, multiplier |-> Multiplier(G[group].count),
        to |-> G[group].listeners, threw |-> {}, escaped |-> FALSE]

NoBroadcast ==
  [op |-> "none", group |-> NoGroup, cb |-> 0, existed |-> FALSE,
   count |-> 0, multiplier |-> 0, to |-> {}, threw |-> {}, escaped |-> FALSE]

\* The state of the coordinator and of its listeners as one value
groupState == [groups |-> LG_GROUPS, mult |-> groupMultiplier, last |-> lastBroadcast]

\* registerInstance(group, cb)
registerInstance(s, group, cb) ==
  LET existed == group \in DOMAIN s.groups
      G0 == IF existed THEN s.groups
            ELSE [g \in DOMAIN s.groups \cup {group} |->
                    IF g = group THEN [count |-> 0, listeners |-> {}] ELSE s.groups[g]]
      G1 == [G0 EXCEPT ![group] = [count |-> @.count + 1,
                                   listeners |-> @.listeners \cup {cb}]]
  IN [groups |-> G1,
      mult |-> recomputeAndNotify(G1, s.mult, group),
      last |-> broadcastOf(G1, group, "register", cb, existed)]

\* A cleanup that deletes the listener and forgets the count and the broadcast
unregisterInstanceSilent(s, group, cb) ==
  IF group \notin DOMAIN s.groups THEN s
  ELSE [s EXCEPT !.groups[group].listeners = @ \ {cb}]

\* A cleanup that updates the entry and tells nobody
unregisterInstanceNoNotify(s, group, cb) ==
  IF group \notin DOMAIN s.groups THEN s
  ELSE [s EXCEPT !.groups[group] = [count |-> Max(0, @.count - 1),
                                    listeners |-> @.listeners \ {cb}]]

\* The function registerInstance returns, called
unregisterInstance(s, group, cb) ==
  IF group \notin DOMAIN s.groups THEN s
  ELSE LET G1 == [s.groups EXCEPT ![group] = [count |-> Max(0, @.count - 1),
                                              listeners |-> @.listeners \ {cb}]]
       IN [groups |-> G1,
           mult |-> recomputeAndNotify(G1, s.mult, group),
           last |-> broadcastOf(G1, group, "unregister", cb, TRUE)]

\* No listener called yet
NoDelivery == [mult |-> <<>>, to |-> {}, threw |-> {}, escaped |-> FALSE]

\* A forEach without the try: the first listener that throws (listeners are
\* visited in their order) ends the loop and the exception leaves it
forEachListenerUncaught(listeners, gm, multiplier, faulty) ==
  LET bad == listeners \cap faulty
      called == IF bad = {} THEN listeners
                ELSE {i \in listeners : \A j \in bad : i <= j}
  IN [NoDelivery EXCEPT
        !.mult = [i \in Instances |-> IF i \in called \ faulty THEN multiplier ELSE gm[i]],
        !.to = called, !.threw = called \cap faulty, !.escaped = bad # {}]

\* g.listeners.forEach(l => { try { l(multiplier); } catch {} }) when the
\* listeners in faulty throw: a listener that throws stores nothing
forEachListener(listeners, gm, multiplier, faulty) ==
  [NoDelivery EXCEPT
     !.mult = [i \in Instances |-> IF i \in listeners \ faulty THEN multiplier ELSE gm[i]],
     !.to = listeners, !.threw = listeners \cap faulty]

\* The outcome t of registerInstance or of the returned function on s, when the
\* listeners in faulty throw
withThrowing(s, t, faulty) ==
  IF t = s \/ t.last.op = "none" THEN t
  ELSE LET f == forEachListener(t.last.to, s.mult, t.last.multiplier, faulty)
       IN [t EXCEPT !.mult = f.mult, !.last.to = f.to, !.last.threw = f.threw,
                    !.last.escaped = f.escaped]

----------------------------------------------------------------------------
(* The quality controller *)

QUALITY_PRESETS ==
  [low     |-> [resolutionScale |-> 350, scaleMultiplier |-> 750,  blurMultiplier |-> 900,  fpsCap |-> 45],
   mobile  |-> [resolutionScale |-> 400, scaleMultiplier |-> 850,  blurMultiplier |-> 1000, fpsCap |-> 55],
   medium  |-> [resolutionScale |-> 500, scaleMultiplier |-> 1000, blurMultiplier |-> 1000, fpsCap |-> 60],
   desktop |-> [resolutionScale |-> 600, scaleMultiplier |-> 1000, blurMultiplier |-> 1000, fpsCap |-> 60],
   high    |-> [resolutionScale |-> 700, scaleMultiplier |-> 1100, blurMultiplier |-> 1000, fpsCap |-> 60]]

Tiers == DOMAIN QUALITY_PRESETS
QualityFields == {"resolutionScale", "scaleMultiplier", "blurMultiplier", "fpsCap"}

\* The clamp bounds written into the merge, per field: <<low, high>>
ClampBounds ==
  [resolutionScale |-> <<300, 800>>, scaleMultiplier |-> <<600, 1200>>,
   blurMultiplier |-> <<600, 1200>>, fpsCap |-> <<30, 60>>]

\* The platform a browser tab gives detectDevicePreset: window and matchMedia exist
Browser(e) ==
  [hasWindow |-> TRUE, matchMedia |-> "ok", reducedMotion |-> e.reducedMotion,
   innerWidth |-> e.innerWidth, devicePixelRatio |-> e.devicePixelRatio,
   hardwareConcurrency |-> e.hardwareConcurrency, deviceMemory |-> e.deviceMemory]

\* The weighted score of detectDevicePreset and the tier it maps to
scoreTier(p, preferPerformance) ==
  LET width == p.innerWidth                                                \* innerWidth || 0
      dpr   == IF p.devicePixelRatio = 0 THEN 10 ELSE p.devicePixelRatio   \* devicePixelRatio || 1
      cores == IF p.hardwareConcurrency = 0 THEN 2 ELSE p.hardwareConcurrency
      mem   == IF p.deviceMemory = 0 THEN 2 ELSE p.deviceMemory
      score == 50
               + (IF dpr <= 20 THEN 10 ELSE IF dpr > 25 THEN -10 ELSE 0)
               + (IF cores >= 8 THEN 10 ELSE IF cores >= 4 THEN 5 ELSE IF cores <= 2 THEN -10 ELSE 0)
               + (IF mem >= 8 THEN 10 ELSE IF mem >= 4 THEN 5 ELSE IF mem <= 2 THEN -10 ELSE 0)
               + (IF width >= 1024 THEN 10 ELSE IF width < 768 THEN -10 ELSE 0)
               - (IF preferPerformance THEN 5 ELSE 0)
  IN IF score <= 35 THEN "low"
     ELSE IF score <= 60 THEN (IF width < 900 \/ dpr > 20 THEN "mobile" ELSE "medium")
     ELSE "desktop"

\* A heuristic that never asks for the reduced-motion preference
detectDevicePresetNoMotion(p, preferPerformance) ==
  IF ~p.hasWindow THEN (IF preferPerformance THEN "low" ELSE "medium")
  ELSE scoreTier(p, preferPerformance)

\* detectDevicePreset(preferPerformance) on platform p
detectDevicePreset(p, preferPerformance) ==
  IF ~p.hasWindow THEN (IF preferPerformance THEN "low" ELSE "medium")
  ELSE IF p.matchMedia = "ok" /\ p.reducedMotion THEN "low"
  ELSE scoreTier(p, preferPerformance)

\* Math.min(hi, Math.max(lo, x))
clamp(lo, hi, x) == Min(hi, Max(lo, x))

\* qualityOverrides?.field ?? base.field
\* (an absent qualityOverrides and an absent field are both a missing key)
override(ov, base, f) == IF f \in DOMAIN ov THEN ov[f] ELSE base[f]

\* A merge that clamps from below only
mergedNoUpper(base, ov) ==
  [f \in QualityFields |-> Max(ClampBounds[f][1], override(ov, base, f))]

\* A merge that takes the override only when it is truthy (|| for ??)
mergedTruthy(base, ov) ==
  [f \in QualityFields |->
     clamp(ClampBounds[f][1], ClampBounds[f][2],
           IF f \in DOMAIN ov /\ ov[f] # 0 THEN ov[f] ELSE base[f])]

\* The merged QualityOptions: each field the override or the base, clamped
merged(base, ov) ==
  [resolutionScale |-> clamp(300, 800,  override(ov, base, "resolutionScale")),
   scaleMultiplier |-> clamp(600, 1200, override(ov, base, "scaleMultiplier")),
   blurMultiplier  |-> clamp(600, 1200, override(ov, base, "blurMultiplier")),
   fpsCap          |-> clamp(30, 60,    override(ov, base, "fpsCap"))]

\* QUALITY_PRESETS[p] || QUALITY_PRESETS.medium
baseOf(p) == IF p \in Tiers THEN QUALITY_PRESETS[p] ELSE QUALITY_PRESETS.medium

\* The tier the render and the effect start from
requestedPreset(e, pr) ==
  IF pr.qualityPreset = "auto" THEN detectDevicePreset(Browser(e), pr.preferPerformance)
  ELSE pr.qualityPreset

\* The useState initializer of quality, and what the effect computes again
resolveQuality(e, pr) ==
  LET p == requestedPreset(e, pr)
  IN [preset |-> p, options |-> merged(baseOf(p), pr.qualityOverrides)]

\* setQuality(prev => changed ? next : prev)
setQuality(prev, next) ==
  IF prev.preset # next.preset \/ prev.options # next.options THEN next ELSE prev

\* What a recording onQualityChanged keeps: the number of its calls modulo 2
\* and the payload of the last one
NoReport == [calls |-> 0, preset |-> "none", options |-> <<>>, reason |-> "none"]

\* An updater that calls onQualityChanged whether or not the state changes
onQualityChangedAlways(prev, next, report) ==
  [report EXCEPT !.calls = 1 - @, !.preset = next.preset, !.options = next.options,
                 !.reason = "capability"]

\* The call of onQualityChanged inside the updater given to setQuality
onQualityChanged(prev, next, report) ==
  IF prev.preset # next.preset \/ prev.options # next.options
  THEN [report EXCEPT !.calls = 1 - @, !.preset = next.preset, !.options = next.options,
                      !.reason = "capability"]
  ELSE report

\* What onWindow computes: c is what the closure holds of the render that
\* registered it
onWindowQuality(e, c) ==
  LET p == detectDevicePreset(Browser(e), c.preferPerformance)
  IN [preset |-> p, options |-> merged(baseOf(p), c.qualityOverrides)]

NoClosure == [registered |-> FALSE]
closureOf(pr) ==
  [registered |-> TRUE, qualityPreset |-> pr.qualityPreset,
   preferPerformance |-> pr.preferPerformance, qualityOverrides |-> pr.qualityOverrides]

\* What the recorder keeps of a call of detectDevicePreset: whether the
\* platform reported a reduced-motion preference, the tier the score alone
\* gives there, and the tier returned
NoDetect == [called |-> FALSE, reducedMotion |-> FALSE, scored |-> "medium", result |-> "medium"]
detectCall(p, preferPerformance) ==
  [called |-> TRUE,
   reducedMotion |-> p.hasWindow /\ p.matchMedia = "ok" /\ p.reducedMotion,
   scored |-> scoreTier(p, preferPerformance),
   result |-> detectDevicePreset(p, preferPerformance)]

----------------------------------------------------------------------------
(* The ambient background sampler *)

Null == [null |-> TRUE]

\* parseCssColorToRgba: the syntaxes its five patterns accept. A colour is a
\* record of its syntax and its components; hex digits are numbers 0..15.
parseCssColorToRgba(c) ==
  IF c.syntax = "rgb" THEN [r |-> c.r, g |-> c.g, b |-> c.b, a |-> <<1, 1>>]
  ELSE IF c.syntax = "rgba" THEN [r |-> c.r, g |-> c.g, b |-> c.b, a |-> c.a]
  ELSE IF c.syntax = "hex3"
    THEN [r |-> 17 * c.h[1], g |-> 17 * c.h[2], b |-> 17 * c.h[3], a |-> <<1, 1>>]
  ELSE IF c.syntax = "hex4"
    THEN [r |-> 17 * c.h[1], g |-> 17 * c.h[2], b |-> 17 * c.h[3], a |-> <<17 * c.h[4], 255>>]
  ELSE IF c.syntax = "hex6"
    THEN [r |-> 16 * c.h[1] + c.h[2], g |-> 16 * c.h[3] + c.h[4],
          b |-> 16 * c.h[5] + c.h[6], a |-> <<1, 1>>]
  ELSE IF c.syntax = "hex8"
    THEN [r |-> 16 * c.h[1] + c.h[2], g |-> 16 * c.h[3] + c.h[4],
          b |-> 16 * c.h[5] + c.h[6], a |-> <<16 * c.h[7] + c.h[8], 255>>]
  ELSE Null

\* bg ? parseCssColorToRgba(bg) : null
parseOrNull(c) == IF c.syntax = "empty" THEN Null ELSE parseCssColorToRgba(c)

\* A hit test that takes any parsed colour
isAnyHit(parsed) == parsed # Null

\* parsed && parsed.a > 0
isOpaqueHit(parsed) == parsed # Null /\ parsed.a[1] > 0

\* The loop of findNearestOpaqueBackground from the k-th node of the chain
RECURSIVE walk(_, _)
walk(chain, k) ==
  IF k > Len(chain) THEN Null
  ELSE IF isOpaqueHit(parseOrNull(chain[k])) THEN parseOrNull(chain[k])
  ELSE walk(chain, k + 1)

\* document.body in a chain that ends <body>, <html>
bodyOf(chain) == chain[Len(chain) - 1]

\* findNearestOpaqueBackground(parent)
findNearestOpaqueBackground(chain) ==
  LET found == walk(chain, 1)
  IN IF found # Null THEN found ELSE parseOrNull(bodyOf(chain))

\* ((c + 0.055) / 1.055) ^ 2.4, or c / 12.92 for c <= 0.03928, of c = v / 255,
\* in ten-thousandths, for v = 0..255
Linear ==
  <<0, 3, 6, 9, 12, 15, 18, 21, 24, 27, 30, 33, 36, 40, 43, 47,
    51, 56, 60, 65, 69, 74, 80, 85, 91, 97, 103, 109, 116, 122, 129, 137,
    144, 152, 159, 168, 176, 185, 193, 202, 212, 221, 231, 241, 251, 262, 273, 284,
    295, 307, 318, 331, 343, 356, 368, 382, 395, 409, 423, 437, 451, 466, 481, 497,
    512, 528, 544, 561, 578, 595, 612, 630, 648, 666, 684, 703, 722, 742, 761, 781,
    802, 822, 843, 865, 886, 908, 930, 953, 975, 998, 1022, 1046, 1070, 1094, 1119, 1144,
    1169, 1195, 1221, 1247, 1274, 1301, 1328, 1356, 1384, 1412, 1441, 1470, 1499, 1529, 1559, 1589,
    1620, 1651, 1682, 1714, 1746, 1778, 1811, 1844, 1878, 1912, 1946, 1980, 2015, 2050, 2086, 2122,
    2158, 2195, 2232, 2269, 2307, 2345, 2383, 2422, 2462, 2501, 2541, 2581, 2622, 2663, 2704, 2746,
    2788, 2831, 2874, 2917, 2961, 3005, 3049, 3094, 3139, 3185, 3231, 3277, 3324, 3371, 3419, 3467,
    3515, 3564, 3613, 3662, 3712, 3762, 3813, 3864, 3915, 3967, 4019, 4072, 4125, 4178, 4232, 4286,
    4341, 4396, 4452, 4507, 4564, 4620, 4677, 4735, 4793, 4851, 4910, 4969, 5028, 5088, 5149, 5209,
    5271, 5332, 5394, 5457, 5520, 5583, 5647, 5711, 5775, 5840, 5906, 5972, 6038, 6104, 6172, 6239,
    6307, 6375, 6444, 6514, 6583, 6653, 6724, 6795, 6866, 6938, 7011, 7083, 7156, 7230, 7304, 7379,
    7454, 7529, 7605, 7681, 7758, 7835, 7912, 7991, 8069, 8148, 8227, 8307, 8387, 8468, 8549, 8631,
    8713, 8796, 8879, 8962, 9046, 9130, 9215, 9301, 9386, 9473, 9559, 9646, 9734, 9822, 9911, 10000>>

\* isRgbColorDark: luminance < 0.5, the luminance in units of 10^-8
isRgbColorDark(rgb) ==
  2126 * Linear[rgb.r + 1] + 7152 * Linear[rgb.g + 1] + 722 * Linear[rgb.b + 1] < 50000000

\* update() of the global autoTextColor effect: the colour it sets
sampledTextColor(chain, pr) ==
  LET bg == findNearestOpaqueBackground(chain)
  IN IF bg = Null THEN pr.textOnLight
     ELSE IF isRgbColorDark(bg) THEN pr.textOnDark ELSE pr.textOnLight

NoSample == [fresh |-> FALSE, by |-> 0, bg |-> Null, color |-> ""]
sampleOf(i, chain, pr) ==
  [fresh |-> TRUE, by |-> i, bg |-> findNearestOpaqueBackground(chain),
   color |-> sampledTextColor(chain, pr)]

----------------------------------------------------------------------------
(* The registrations of the effects *)

\* One registration held by the platform: a window or media-query listener
\* (target, type, capture) or a connected observer, with the instance and the
\* effect run whose closure it is
Reg(i, effect, target, type, capture, node) ==
  [owner |-> i, effect |-> effect, target |-> target, type |-> type,
   capture |-> capture, node |-> node]

\* Quality effect: window.addEventListener('resize', onWindow) and
\* mq.addEventListener?.('change', onWindow)
qualityRegs(i, e) ==
  {Reg(i, "quality", "window", "resize", FALSE, 0)}
  \cup (IF e.mqAddEventListener
        THEN {Reg(i, "quality", "matchMedia", "change", FALSE, 0)} ELSE {})

\* A cleanup of the quality effect that forgets the media-query listener
qualityCleanupNoMq(i, e) == {Reg(i, "quality", "window", "resize", FALSE, 0)}

\* Quality effect cleanup: what it removes
qualityCleanup(i, e) ==
  {Reg(i, "quality", "window", "resize", FALSE, 0)}
  \cup (IF e.mqAddEventListener
        THEN {Reg(i, "quality", "matchMedia", "change", FALSE, 0)} ELSE {})

\* Dimension effect: new ResizeObserver(updateDimensions).observe(container)
dimensionRegs(i) == {Reg(i, "dimensions", "ResizeObserver", "container", FALSE, 0)}

\* Global autoTextColor effect: two window listeners and one MutationObserver
\* for each ancestor and one more for document.body
globalRegs(i, chain) ==
  {Reg(i, "global", "window", "resize", FALSE, 0),
   Reg(i, "global", "window", "scroll", TRUE, 0)}
  \cup {Reg(i, "global", "MutationObserver", "attributes", FALSE, k) :
          k \in 1..(Len(chain) + 1)}

\* A cleanup of the perPixel effect that removes pointermove without the capture flag
perPixelCleanupNoCapture(i) ==
  {Reg(i, "perPixel", "ResizeObserver", "container+targets", FALSE, 0),
   Reg(i, "perPixel", "MutationObserver", "subtree", FALSE, 0),
   Reg(i, "perPixel", "window", "scroll", TRUE, 0),
   Reg(i, "perPixel", "window", "pointermove", FALSE, 0),
   Reg(i, "perPixel", "window", "resize", FALSE, 0)}

\* Tagging effect: a MutationObserver on the content root
taggingRegs(i) == {Reg(i, "tagging", "MutationObserver", "subtree", FALSE, 0)}

\* perPixel effect: ro, mo and three window listeners
perPixelRegs(i) ==
  {Reg(i, "perPixel", "ResizeObserver", "container+targets", FALSE, 0),
   Reg(i, "perPixel", "MutationObserver", "subtree", FALSE, 0),
   Reg(i, "perPixel", "window", "scroll", TRUE, 0),
   Reg(i, "perPixel", "window", "pointermove", TRUE, 0),
   Reg(i, "perPixel", "window", "resize", FALSE, 0)}

\* perPixel effect cleanup: what it disconnects and removes
perPixelCleanup(i) ==
  {Reg(i, "perPixel", "ResizeObserver", "container+targets", FALSE, 0),
   Reg(i, "perPixel", "MutationObserver", "subtree", FALSE, 0),
   Reg(i, "perPixel", "window", "scroll", TRUE, 0),
   Reg(i, "perPixel", "window", "pointermove", TRUE, 0),
   Reg(i, "perPixel", "window", "resize", FALSE, 0)}

\* The guards at the head of the three autoTextColor effects
globalActive(pr)   == pr.autoTextColor /\ pr.autoTextColorMode # "perPixel"
taggingActive(pr)  == pr.autoTextColor /\ pr.autoTextColorMode = "perPixel" /\ pr.hasChildren
perPixelActive(pr) == pr.autoTextColor /\ pr.autoTextColorMode = "perPixel"

\* The dependency arrays
groupDeps(pr)    == <<pr.instanceGroup>>
qualityDeps(pr)  == <<pr.qualityPreset, pr.preferPerformance, pr.qualityOverrides>>
globalDeps(pr)   == <<pr.autoTextColor, pr.autoTextColorMode, pr.textOnDark, pr.textOnLight>>
\* A dependency array of the tagging and perPixel effects without the mode
perPixelDepsNoMode(pr) == <<pr.autoTextColor>>
perPixelDeps(pr) == <<pr.autoTextColor, pr.autoTextColorMode, pr.perPixelTargetSelector>>

\* What the effects of a render with props pr register
setupRegs(i, pr, e, chain) ==
  qualityRegs(i, e) \cup dimensionRegs(i)
  \cup (IF globalActive(pr) THEN globalRegs(i, chain) ELSE {})
  \cup (IF taggingActive(pr) THEN taggingRegs(i) ELSE {})
  \cup (IF perPixelActive(pr) THEN perPixelRegs(i) ELSE {})

\* What the cleanups of all effects remove
cleanupRegs(i, e, chain) ==
  qualityCleanup(i, e) \cup dimensionRegs(i) \cup globalRegs(i, chain)
  \cup taggingRegs(i) \cup perPixelCleanup(i)

\* Whether the platform holds a listener or observer of instance i
HasReg(i, effect, target, type) ==
  \E r \in registry :
     r.owner = i /\ r.effect = effect /\ r.target = target /\ r.type = type

----------------------------------------------------------------------------
(* Strings: sequences of one-character strings *)

Digit == {"0", "1", "2", "3", "4", "5", "6", "7", "8", "9"}
DigitVal ==
  [c \in Digit |->
     CASE c = "0" -> 0 [] c = "1" -> 1 [] c = "2" -> 2 [] c = "3" -> 3 [] c = "4" -> 4
       [] c = "5" -> 5 [] c = "6" -> 6 [] c = "7" -> 7 [] c = "8" -> 8 [] c = "9" -> 9]
DigitOf == <<"0", "1", "2", "3", "4", "5", "6", "7", "8", "9">>

UpperCase == <<"A", "B", "C", "D", "E", "F", "G", "H", "L", "R", "S", "U">>
LowerCase == <<"a", "b", "c", "d", "e", "f", "g", "h", "l", "r", "s", "u">>

\* String.prototype.toLowerCase over the letters the inputs use
toLowerCase(s) ==
  [k \in 1..Len(s) |->
     IF \E n \in 1..Len(UpperCase) : UpperCase[n] = s[k]
     THEN LowerCase[CHOOSE n \in 1..Len(UpperCase) : UpperCase[n] = s[k]]
     ELSE s[k]]

\* [0-9a-f] under the i flag
HexDigit == Digit \cup {"a", "b", "c", "d", "e", "f", "A", "B", "C", "D", "E", "F"}
HexVal(c) ==
  IF c \in Digit THEN DigitVal[c]
  ELSE CASE c \in {"a", "A"} -> 10 [] c \in {"b", "B"} -> 11 [] c \in {"c", "C"} -> 12
         [] c \in {"d", "D"} -> 13 [] c \in {"e", "E"} -> 14 [] c \in {"f", "F"} -> 15

WhiteSpace == {" "}

\* The first position from i on whose character is not in set (Len(s) + 1 when
\* there is none); 0, a failed match, stays 0
span(s, i, set) ==
  IF i = 0 THEN 0
  ELSE CHOOSE j \in i..(Len(s) + 1) :
         /\ \A k \in i..(j - 1) : s[k] \in set
         /\ j = Len(s) + 1 \/ s[j] \notin set

\* \s*
afterSpaces(s, i) == span(s, i, WhiteSpace)

\* \d+
afterDigits(s, i) == LET j == span(s, i, Digit) IN IF i # 0 /\ j > i THEN j ELSE 0

\* one literal character
afterChar(s, i, c) == IF i # 0 /\ i <= Len(s) /\ s[i] = c THEN i + 1 ELSE 0

\* String.prototype.trim
trim(s) ==
  LET a == span(s, 1, WhiteSpace)
      b == IF a > Len(s) THEN 0
           ELSE CHOOSE j \in a..Len(s) :
                  s[j] \notin WhiteSpace /\ \A k \in (j + 1)..Len(s) : s[k] \in WhiteSpace
  IN IF a > Len(s) THEN <<>> ELSE SubSeq(s, a, b)

\* The literal is at position i of s, under the i flag
literalAt(s, i, lit) ==
  /\ i >= 1 /\ i + Len(lit) - 1 <= Len(s)
  /\ toLowerCase(SubSeq(s, i, i + Len(lit) - 1)) = lit

\* String.prototype.includes
includes(s, lit) ==
  \E i \in 1..Len(s) : i + Len(lit) - 1 <= Len(s) /\ SubSeq(s, i, i + Len(lit) - 1) = lit

\* The last position of character c in s, 0 when there is none
lastIndexOf(s, c) ==
  IF \E k \in 1..Len(s) : s[k] = c
  THEN CHOOSE k \in 1..Len(s) : s[k] = c /\ \A j \in (k + 1)..Len(s) : s[j] # c
  ELSE 0

\* The first position of character c in s from i on, 0 when there is none
indexOfFrom(s, c, i) ==
  IF \E k \in i..Len(s) : s[k] = c
  THEN CHOOSE k \in i..Len(s) : s[k] = c /\ \A j \in i..(k - 1) : s[j] # c
  ELSE 0

\* parseInt(digits, 10)
RECURSIVE parseInt10(_)
parseInt10(t) ==
  IF t = <<>> THEN 0 ELSE 10 * parseInt10(SubSeq(t, 1, Len(t) - 1)) + DigitVal[t[Len(t)]]

\* parseInt(hex, 16)
RECURSIVE parseInt16(_)
parseInt16(t) ==
  IF t = <<>> THEN 0 ELSE 16 * parseInt16(SubSeq(t, 1, Len(t) - 1)) + HexVal(t[Len(t)])

\* String(n) of a natural number
RECURSIVE numberToString(_)
numberToString(n) ==
  IF n < 10 THEN <<DigitOf[n + 1]>>
  ELSE numberToString(n \div 10) \o <<DigitOf[(n % 10) + 1]>>

\* String(alpha) of an alpha kept in thousandths: 300 is "0.3", 1000 is "1"
alphaToString(alpha) ==
  LET whole == numberToString(alpha \div 1000)
      f == alpha % 1000
      frac == IF f % 100 = 0 THEN <<DigitOf[(f \div 100) + 1]>>
              ELSE IF f % 10 = 0
                   THEN <<DigitOf[(f \div 100) + 1], DigitOf[((f \div 10) % 10) + 1]>>
                   ELSE <<DigitOf[(f \div 100) + 1], DigitOf[((f \div 10) % 10) + 1],
                          DigitOf[(f % 10) + 1]>>
  IN IF f = 0 THEN whole ELSE whole \o <<".">> \o frac

\* The token is \d*\.?\d+
isNumberToken(t) ==
  /\ Len(t) >= 1
  /\ \A k \in 1..Len(t) : t[k] \in Digit \cup {"."}
  /\ Cardinality({k \in 1..Len(t) : t[k] = "."}) <= 1
  /\ t[Len(t)] \in Digit

\* parseFloat(t) > 0 && parseFloat(t) < 1 for a token \d*\.?\d+
strictlyBetween0And1(t) ==
  LET dot == indexOfFrom(t, ".", 1)
      whole == IF dot = 0 THEN t ELSE SubSeq(t, 1, dot - 1)
  IN /\ \E k \in 1..Len(t) : t[k] \in Digit \ {"0"}
     /\ \A k \in 1..Len(whole) : whole[k] = "0"

\* \s*(\d*\.?\d+)\s*\)$ from position i: the token, or <<>> when it does not match
alphaTail(s, i) ==
  LET a == afterSpaces(s, i)
      b == span(s, a, Digit \cup {"."})
      t == IF a = 0 \/ b <= a THEN <<>> ELSE SubSeq(s, a, b - 1)
  IN IF a # 0 /\ isNumberToken(t) /\ afterChar(s, afterSpaces(s, b), ")") = Len(s) + 1
     THEN t ELSE <<>>

----------------------------------------------------------------------------
(* The colour-string functions *)

\* /^rgba\(\s*\d+\s*,\s*\d+\s*,\s*\d+\s*,\s*(\d*\.?\d+)\s*\)$/i: the alpha
\* token, or <<>>
rgbaAlpha(color) ==
  IF ~literalAt(color, 1, <<"r", "g", "b", "a", "(">>) THEN <<>>
  ELSE LET c1 == afterChar(color, afterSpaces(color, afterDigits(color, afterSpaces(color, 6))), ",")
           c2 == afterChar(color, afterSpaces(color, afterDigits(color, afterSpaces(color, c1))), ",")
           c3 == afterChar(color, afterSpaces(color, afterDigits(color, afterSpaces(color, c2))), ",")
       IN IF c3 = 0 THEN <<>> ELSE alphaTail(color, c3)

\* /^hsla\(.*?,\s*(\d*\.?\d+)\s*\)$/i: the alpha token, or <<>>
hslaAlpha(color) ==
  LET comma == lastIndexOf(color, ",")
  IN IF literalAt(color, 1, <<"h", "s", "l", "a", "(">>) /\ comma >= 6 THEN alphaTail(color, comma + 1)
     ELSE <<>>

\* /^hsl\(.*?\/\s*(\d*\.?\d+)\s*\)$/i: the alpha token, or <<>>
hslSlashAlpha(color) ==
  LET slash == lastIndexOf(color, "/")
  IN IF literalAt(color, 1, <<"h", "s", "l", "(">>) /\ slash >= 5 THEN alphaTail(color, slash + 1)
     ELSE <<>>

\* /^#([0-9a-f]{n})$/i
isHex(color, n) ==
  /\ Len(color) = n + 1
  /\ color[1] = "#"
  /\ \A k \in 2..(n + 1) : color[k] \in HexDigit

\* An isSemiTransparentColor whose test is a > 0 && a <= 1
isSemiTransparentColorClosed(input) ==
  LET color == trim(input)
  IN IF input = <<>> THEN FALSE
     ELSE IF rgbaAlpha(color) # <<>>
          THEN \E k \in 1..Len(rgbaAlpha(color)) : rgbaAlpha(color)[k] \in Digit \ {"0"}
     ELSE IF hslaAlpha(color) # <<>>
          THEN \E k \in 1..Len(hslaAlpha(color)) : hslaAlpha(color)[k] \in Digit \ {"0"}
     ELSE IF hslSlashAlpha(color) # <<>>
          THEN \E k \in 1..Len(hslSlashAlpha(color)) : hslSlashAlpha(color)[k] \in Digit \ {"0"}
     ELSE IF isHex(color, 4) THEN parseInt16(<<color[5], color[5]>>) > 0
     ELSE IF isHex(color, 8) THEN parseInt16(<<color[8], color[9]>>) > 0
     ELSE FALSE

\* isSemiTransparentColor
isSemiTransparentColor(input) ==
  LET color == trim(input)
  IN IF input = <<>> THEN FALSE
     ELSE IF rgbaAlpha(color) # <<>> THEN strictlyBetween0And1(rgbaAlpha(color))
     ELSE IF hslaAlpha(color) # <<>> THEN strictlyBetween0And1(hslaAlpha(color))
     ELSE IF hslSlashAlpha(color) # <<>> THEN strictlyBetween0And1(hslSlashAlpha(color))
     ELSE IF isHex(color, 4)
          THEN LET a == parseInt16(<<color[5], color[5]>>) IN a > 0 /\ a < 255
     ELSE IF isHex(color, 8)
          THEN LET a == parseInt16(<<color[8], color[9]>>) IN a > 0 /\ a < 255
     ELSE FALSE

\* `rgba(${r}, ${g}, ${b}, ${alpha})`
rgbaString(r, g, b, alpha) ==
  <<"r", "g", "b", "a", "(">> \o numberToString(r) \o <<",", " ">> \o numberToString(g) \o <<",", " ">>
  \o numberToString(b) \o <<",", " ">> \o alphaToString(alpha) \o <<")">>

\* /^rgb\(\s*(\d+)\s*,\s*(\d+)\s*,\s*(\d+)\s*\)$/i: the three groups, or <<>>
rgbGroups(trimmed) ==
  IF ~literalAt(trimmed, 1, <<"r", "g", "b", "(">>) THEN <<>>
  ELSE LET r1 == afterSpaces(trimmed, 5)
           r2 == afterDigits(trimmed, r1)
           g1 == afterSpaces(trimmed, afterChar(trimmed, afterSpaces(trimmed, r2), ","))
           g2 == afterDigits(trimmed, g1)
           b1 == afterSpaces(trimmed, afterChar(trimmed, afterSpaces(trimmed, g2), ","))
           b2 == afterDigits(trimmed, b1)
       IN IF b2 # 0 /\ afterChar(trimmed, afterSpaces(trimmed, b2), ")") = Len(trimmed) + 1
          THEN <<SubSeq(trimmed, r1, r2 - 1), SubSeq(trimmed, g1, g2 - 1),
                 SubSeq(trimmed, b1, b2 - 1)>>
          ELSE <<>>

\* /^hsl\(\s*([^,]+)\s*,\s*([^,]+)\s*,\s*([^)]+)\s*\)$/i: the three groups
\* trimmed, or <<>>
hslGroups(trimmed) ==
  IF ~(literalAt(trimmed, 1, <<"h", "s", "l", "(">>) /\ trimmed[Len(trimmed)] = ")") THEN <<>>
  ELSE LET inner == SubSeq(trimmed, 5, Len(trimmed) - 1)
           k1 == indexOfFrom(inner, ",", 1)
           k2 == IF k1 = 0 THEN 0 ELSE indexOfFrom(inner, ",", k1 + 1)
       IN IF /\ k1 >= 2 /\ k2 >= k1 + 2 /\ k2 < Len(inner)
             /\ \A k \in (k2 + 1)..Len(inner) : inner[k] # ")"
          THEN <<trim(SubSeq(inner, 1, k1 - 1)), trim(SubSeq(inner, k1 + 1, k2 - 1)),
                 trim(SubSeq(inner, k2 + 1, Len(inner)))>>
          ELSE <<>>

\* An addTransparencyToColor that keeps the name hsl( when it adds the alpha
addTransparencyToColorKeepsName(color, alpha) ==
  LET trimmed == trim(color)
  IN IF isHex(trimmed, 3)
     THEN rgbaString(parseInt16(<<trimmed[2], trimmed[2]>>),
                     parseInt16(<<trimmed[3], trimmed[3]>>),
                     parseInt16(<<trimmed[4], trimmed[4]>>), alpha)
     ELSE IF isHex(trimmed, 6)
     THEN rgbaString(parseInt16(SubSeq(trimmed, 2, 3)), parseInt16(SubSeq(trimmed, 4, 5)),
                     parseInt16(SubSeq(trimmed, 6, 7)), alpha)
     ELSE IF rgbGroups(trimmed) # <<>>
     THEN rgbaString(parseInt10(rgbGroups(trimmed)[1]), parseInt10(rgbGroups(trimmed)[2]),
                     parseInt10(rgbGroups(trimmed)[3]), alpha)
     ELSE IF hslGroups(trimmed) # <<>>
     THEN <<"h", "s", "l", "(">> \o hslGroups(trimmed)[1] \o <<",", " ">> \o hslGroups(trimmed)[2] \o <<",", " ">>
          \o hslGroups(trimmed)[3] \o <<",", " ">> \o alphaToString(alpha) \o <<")">>
     ELSE trimmed

\* addTransparencyToColor
addTransparencyToColor(color, alpha) ==
  LET trimmed == trim(color)
  IN IF isHex(trimmed, 3)
     THEN rgbaString(parseInt16(<<trimmed[2], trimmed[2]>>),
                     parseInt16(<<trimmed[3], trimmed[3]>>),
                     parseInt16(<<trimmed[4], trimmed[4]>>), alpha)
     ELSE IF isHex(trimmed, 6)
     THEN rgbaString(parseInt16(SubSeq(trimmed, 2, 3)), parseInt16(SubSeq(trimmed, 4, 5)),
                     parseInt16(SubSeq(trimmed, 6, 7)), alpha)
     ELSE IF rgbGroups(trimmed) # <<>>
     THEN rgbaString(parseInt10(rgbGroups(trimmed)[1]), parseInt10(rgbGroups(trimmed)[2]),
                     parseInt10(rgbGroups(trimmed)[3]), alpha)
     ELSE IF hslGroups(trimmed) # <<>>
     THEN <<"h", "s", "l", "a", "(">> \o hslGroups(trimmed)[1] \o <<",", " ">> \o hslGroups(trimmed)[2] \o <<",", " ">>
          \o hslGroups(trimmed)[3] \o <<",", " ">> \o alphaToString(alpha) \o <<")">>
     ELSE trimmed

\* The alternatives of the gradient pattern
GradientTypes ==
  <<<<"l", "i", "n", "e", "a", "r", "-", "g", "r", "a", "d", "i", "e", "n", "t">>, <<"r", "a", "d", "i", "a", "l", "-", "g", "r", "a", "d", "i", "e", "n", "t">>, <<"c", "o", "n", "i", "c", "-", "g", "r", "a", "d", "i", "e", "n", "t">>,
    <<"r", "e", "p", "e", "a", "t", "i", "n", "g", "-", "l", "i", "n", "e", "a", "r", "-", "g", "r", "a", "d", "i", "e", "n", "t">>, <<"r", "e", "p", "e", "a", "t", "i", "n", "g", "-", "r", "a", "d", "i", "a", "l", "-", "g", "r", "a", "d", "i", "e", "n", "t">>,
    <<"r", "e", "p", "e", "a", "t", "i", "n", "g", "-", "c", "o", "n", "i", "c", "-", "g", "r", "a", "d", "i", "e", "n", "t">>>>

\* /^(linear-gradient|...)\s*\(/i: the length of the matched name, or 0
gradientMatch(gradient) ==
  LET hits == {n \in 1..Len(GradientTypes) :
                 /\ literalAt(gradient, 1, GradientTypes[n])
                 /\ afterChar(gradient, afterSpaces(gradient, Len(GradientTypes[n]) + 1), "(") # 0}
  IN IF hits = {} THEN 0
     ELSE Len(GradientTypes[CHOOSE n \in hits : \A m \in hits : n <= m])

\* The loop over content from position i: current is the text since the last
\* separator, parenCount the depth, parts what was pushed
RECURSIVE splitLoop(_, _, _, _, _)
splitLoop(content, i, current, parenCount, parts) ==
  IF i > Len(content) THEN Append(parts, trim(current))
  ELSE LET char == content[i]
       IN IF char = "(" THEN splitLoop(content, i + 1, Append(current, char), parenCount + 1, parts)
          ELSE IF char = ")"
          THEN splitLoop(content, i + 1, Append(current, char), parenCount - 1, parts)
          ELSE IF char = "," /\ parenCount = 0
          THEN splitLoop(content, i + 1, <<>>, parenCount, Append(parts, trim(current)))
          ELSE splitLoop(content, i + 1, Append(current, char), parenCount, parts)

\* The top-level split as an operator of the content
splitParts(content) == splitLoop(content, 1, <<>>, 0, <<>>)

\* The length of what the colour pattern
\* (#[0-9a-f]{3,6}|rgb\([^)]+\)|hsl\([^)]+\)|rgba\([^)]+\)|hsla\([^)]+\))
\* matches at position p of part, 0 when it does not match there
colorMatchAt(part, p) ==
  LET fn(lit) ==
        LET q == indexOfFrom(part, ")", p + Len(lit))
        IN IF literalAt(part, p, lit) /\ q > p + Len(lit) THEN q - p + 1 ELSE 0
      hexRun == span(part, p + 1, HexDigit) - (p + 1)
  IN IF part[p] = "#" THEN (IF hexRun >= 3 THEN 1 + Min(hexRun, 6) ELSE 0)
     ELSE IF fn(<<"r", "g", "b", "(">>) # 0 THEN fn(<<"r", "g", "b", "(">>)
     ELSE IF fn(<<"h", "s", "l", "(">>) # 0 THEN fn(<<"h", "s", "l", "(">>)
     ELSE IF fn(<<"r", "g", "b", "a", "(">>) # 0 THEN fn(<<"r", "g", "b", "a", "(">>)
     ELSE fn(<<"h", "s", "l", "a", "(">>)

\* parts.map: the first colour of the part goes through addTransparencyToColor
processPart(part, alpha) ==
  LET ps == {p \in 1..Len(part) : colorMatchAt(part, p) # 0}
  IN IF ps = {} THEN part
     ELSE LET p == CHOOSE p \in ps : \A q \in ps : p <= q
              n == colorMatchAt(part, p)
          IN SubSeq(part, 1, p - 1)
             \o addTransparencyToColor(SubSeq(part, p, p + n - 1), alpha)
             \o SubSeq(part, p + n, Len(part))

\* processedParts.join(', ')
RECURSIVE join(_)
join(parts) ==
  IF Len(parts) = 0 THEN <<>>
  ELSE IF Len(parts) = 1 THEN parts[1]
  ELSE parts[1] \o <<",", " ">> \o join(Tail(parts))

\* addTransparencyToGradient
addTransparencyToGradient(gradient, alpha) ==
  LET n == gradientMatch(gradient)
  IN IF n = 0 THEN gradient
     ELSE LET gradientType == SubSeq(gradient, 1, n)
              content == SubSeq(gradient, n + 2, Len(gradient) - 1)
              parts == splitParts(content)
              processedParts == [k \in 1..Len(parts) |-> processPart(parts[k], alpha)]
          IN gradientType \o <<"(">> \o join(processedParts) \o <<")">>

\* The value of a prop that was not passed
Undefined == <<"undefined">>

\* A processBackground without the test for an image
processBackgroundNoUrl(background, alpha) ==
  IF background = Undefined \/ background = <<>> THEN Undefined
  ELSE IF isSemiTransparentColor(background) THEN background
  ELSE IF includes(background, <<"g", "r", "a", "d", "i", "e", "n", "t">>) THEN addTransparencyToGradient(background, alpha)
  ELSE addTransparencyToColor(background, alpha)

\* processBackground
processBackground(background, alpha) ==
  IF background = Undefined \/ background = <<>> THEN Undefined
  ELSE IF isSemiTransparentColor(background) THEN background
  ELSE IF includes(background, <<"g", "r", "a", "d", "i", "e", "n", "t">>) THEN addTransparencyToGradient(background, alpha)
  ELSE IF includes(background, <<"u", "r", "l", "(">>) THEN background
  ELSE addTransparencyToColor(background, alpha)

\* `hsl(0 0% 100% / ${frost})`
frostColor(frost) == <<"h", "s", "l", "(", "0", " ", "0", "%", " ", "1", "0", "0", "%", " ", "/", " ">> \o alphaToString(frost) \o <<")">>

\* Nothing resolved yet
NoFill == [fill |-> <<>>, warned |-> FALSE]

\* resolvedGlassBackground of the panel and the console.warn that follows it
resolvedGlassBackground(glassColor, background, frost) ==
  [NoFill EXCEPT
     !.fill = IF background # Undefined /\ background # <<>>
              THEN <<"t", "r", "a", "n", "s", "p", "a", "r", "e", "n", "t">>
              ELSE IF glassColor # Undefined /\ glassColor # <<>>
                      /\ isSemiTransparentColor(glassColor)
                   THEN glassColor
                   ELSE frostColor(frost),
     !.warned = glassColor # Undefined /\ glassColor # <<>>
                /\ ~isSemiTransparentColor(glassColor)]

\* A getResolvedGlassBackground that returns whatever glassColor it is given
getResolvedGlassBackgroundUnchecked(glassColor, frost) ==
  [NoFill EXCEPT !.fill = IF glassColor # Undefined /\ glassColor # <<>> THEN glassColor
                          ELSE frostColor(frost)]

\* getResolvedGlassBackground of the canvas panel
getResolvedGlassBackground(glassColor, frost) ==
  IF glassColor # Undefined /\ glassColor # <<>> /\ isSemiTransparentColor(glassColor)
  THEN [NoFill EXCEPT !.fill = glassColor]
  ELSE [NoFill EXCEPT !.fill = frostColor(frost),
                      !.warned = glassColor # Undefined /\ glassColor # <<>>
                                 /\ ~isSemiTransparentColor(glassColor)]

----------------------------------------------------------------------------
(* The canvas panel's draw effect *)

Shaders == {"VS", "FS_BLUR", "FS_COMPOSITE"}
Programs == {"blurProg", "compProg"}

\* A platform with WebGL2 on which every shader compiles and every program links
DefaultPlatform ==
  [webgl2 |-> TRUE, compiles |-> [sh \in Shaders |-> TRUE], links |-> [pg \in Programs |-> TRUE]]

\* The pixels of the canvas that are followed: the middle pixel, the leftmost
\* pixel of the middle row and the top-left pixel
Samples == {"centre", "edge", "corner"}

\* A fragment of the composite pass: d in hundredths of a px, inside and
\* borderMask in thousandths; a discarded fragment leaves the pixel transparent
NoFragment == [d |-> 0, inside |-> 0, borderMask |-> 0, discard |-> TRUE]

NoEffect ==
  [ran |-> FALSE, drew |-> FALSE, warned |-> FALSE, threw |-> "", cleared |-> FALSE,
   u_radius |-> 0, u_borderWidth |-> 0, pixels |-> [s \in Samples |-> NoFragment]]

\* createShader: the empty string when it returns, the message of the Error it throws
createShader(platform, sh) == IF platform.compiles[sh] THEN "" ELSE "Shader compile error"

\* createProgram: the empty string when it returns, the message of the Error
\* that it or createShader throws
createProgram(platform, pg, fs) ==
  IF createShader(platform, "VS") # "" THEN createShader(platform, "VS")
  ELSE IF createShader(platform, fs) # "" THEN createShader(platform, fs)
  ELSE IF ~platform.links[pg] THEN "Program link error"
  ELSE ""

\* The draw effect of LiquidGlassCanvas
drawEffect(platform, backdropSource) ==
  IF ~platform.webgl2
  THEN [NoEffect EXCEPT !.ran = TRUE, !.warned = TRUE]
  ELSE IF createProgram(platform, "blurProg", "FS_BLUR") # ""
  THEN [NoEffect EXCEPT !.ran = TRUE, !.threw = createProgram(platform, "blurProg", "FS_BLUR")]
  ELSE IF createProgram(platform, "compProg", "FS_COMPOSITE") # ""
  THEN [NoEffect EXCEPT !.ran = TRUE,
                        !.threw = createProgram(platform, "compProg", "FS_COMPOSITE")]
  ELSE IF ~backdropSource
  THEN [NoEffect EXCEPT !.ran = TRUE, !.cleared = TRUE]
  ELSE [NoEffect EXCEPT !.ran = TRUE, !.drew = TRUE]


\* DEFAULTS of the canvas panel: border in thousandths, radius in px
DEFAULTS_border == 50
DEFAULTS_radius == 50

\* Math.floor(Math.sqrt(n))
RECURSIVE sqrtFrom(_, _)
sqrtFrom(n, x) ==
  LET y == (x + n \div x) \div 2
  IN IF y >= x THEN x ELSE sqrtFrom(n, y)

sqrt(n) == IF n = 0 THEN 0 ELSE sqrtFrom(n, n)

Abs(a) == IF a < 0 THEN 0 - a ELSE a

\* smoothstep(edge0, edge1, x) for edge0 < edge1, in thousandths
smoothstep(edge0, edge1, x) ==
  LET t == Max(0, Min(1000, ((x - edge0) * 1000) \div (edge1 - edge0)))
  IN (((t * t) \div 1000) * (3000 - 2 * t)) \div 1000

\* sdRoundRect(p, b, r), all in hundredths of a px
sdRoundRect(p, b, r) ==
  LET qx == Max(Abs(p[1]) - b[1] + r, 0)
      qy == Max(Abs(p[2]) - b[2] + r, 0)
  IN sqrt(qx * qx + qy * qy) - r

\* main() of FS_COMPOSITE for the fragment at px (hundredths of a px), with a
\* border width above zero
FS_COMPOSITE(px, u_resolution, u_radius, u_borderWidth) ==
  LET center == <<u_resolution[1] * 50, u_resolution[2] * 50>>
      d == sdRoundRect(<<px[1] - center[1], px[2] - center[2]>>, center, u_radius)
      bw == Max(u_borderWidth, 0)
      borderMask == smoothstep(0, 1000, 1000 - smoothstep(0 - bw, 0, d))
      inside == IF d <= 0 THEN 1000 ELSE 0
  IN [NoFragment EXCEPT !.d = d, !.inside = inside, !.borderMask = borderMask,
                        !.discard = Max(inside, borderMask) <= 1]

\* The centre of the followed pixel, in hundredths of a px
pixelAt(s, renderWidth, renderHeight) ==
  <<IF s = "centre" THEN 100 * (renderWidth \div 2) + 50 ELSE 50,
    IF s = "corner" THEN 50 ELSE 100 * (renderHeight \div 2) + 50>>

\* dpr of the draw effect, in tenths
clampDpr(devicePixelRatio) ==
  Max(10, Min(20, IF devicePixelRatio = 0 THEN 10 ELSE devicePixelRatio))

\* renderWidth and renderHeight
renderSize(size, dpr) == Max(1, (size * dpr) \div 10)

\* The value given to u_borderWidth, in hundredths of a px
borderWidthPx(dpr, renderWidth, renderHeight) ==
  Max(0, Min(10 * dpr, (Min(renderWidth, renderHeight) * 50 * DEFAULTS_border) \div 1000))

\* The value given to u_radius, in hundredths of a px
radiusPx(radius, dpr, renderWidth, renderHeight) ==
  Max(0, Min(10 * radius * dpr, Min(renderWidth, renderHeight) * 50))

\* The dependencies of the draw effect that the model follows
drawDeps(c) == <<c.width, c.height, c.backdropSource, c.radius>>

\* The draw effect of the canvas panel c with the uniforms of its composite
\* pass and the fragments of the followed pixels
draw(c) ==
  LET e == drawEffect(c.platform, c.backdropSource)
      dpr == clampDpr(c.devicePixelRatio)
      rw == renderSize(c.width, dpr)
      rh == renderSize(c.height, dpr)
      r == radiusPx(c.radius, dpr, rw, rh)
      bw == borderWidthPx(dpr, rw, rh)
  IN IF ~e.drew THEN e
     ELSE [e EXCEPT !.u_radius = r, !.u_borderWidth = bw,
                    !.pixels = [s \in Samples |->
                                  FS_COMPOSITE(pixelAt(s, rw, rh), <<rw, rh>>, r, bw)]]

----------------------------------------------------------------------------
(* The Three.js panels: render targets, passes and disposal *)

Backends == {"WebGLLiquidGlass", "LiquidGlassThree"}

\* The resize callbacks followed for one effect run
MaxResizes == 2

\* GPU resources are named <<kind, n>>; the screen is the null render target
Screen == <<"screen", 0>>
Renderer == <<"renderer", 0>>
Geometry == <<"geometry", 0>>
ImageTexture == <<"texture", 1>>
BackgroundTexture == <<"texture", 2>>
TargetA(n) == <<"targetA", n>>
TargetB(n) == <<"targetB", n>>

\* gradientMat, imageMat, circle1Mat, circle2Mat, sdfMat of WebGLLiquidGlass;
\* baseMaterial, darkenMaterial, lightenMaterial, lensMaterial of LiquidGlassThree
Materials(backend) ==
  {<<"material", k>> : k \in 1..(IF backend = "WebGLLiquidGlass" THEN 5 ELSE 4)}

NoPass == [target |-> Screen, reads |-> {}, disposed |-> {}]

\* What is kept of an effect run that a later run has replaced
NoLifetime == [created |-> {}, disposed |-> {}, twice |-> {}, rafId |-> FALSE]

NoThree ==
  [alive |-> FALSE, backend |-> "none", created |-> {}, disposed |-> {}, twice |-> {},
   resizes |-> 0, uTexture |-> <<>>, rafId |-> FALSE, frame |-> <<>>,
   previous |-> NoLifetime]

\* r.dispose() for every r of rs
dispose(g, rs) ==
  [g EXCEPT !.twice = @ \cup (rs \cap g.disposed), !.disposed = @ \cup rs]

\* One pass: the material's textures are read while target is the render target
renderPass(g, target, reads) ==
  [NoPass EXCEPT !.target = target, !.reads = reads, !.disposed = reads \cap g.disposed]

\* animate of WebGLLiquidGlass, render of LiquidGlassThree: the passes of a frame
animate(g) ==
  LET A == TargetA(g.resizes)
      B == TargetB(g.resizes)
      textures == g.created \cap {ImageTexture, BackgroundTexture}
  IN IF g.backend = "WebGLLiquidGlass"
     THEN <<renderPass(g, A, {}),
            renderPass(g, B, {A, ImageTexture}),
            renderPass(g, A, {B}),
            renderPass(g, B, {A}),
            renderPass(g, Screen, {B})>>
     ELSE <<renderPass(g, A, textures),
            renderPass(g, B, {g.uTexture.darken}),
            renderPass(g, A, {g.uTexture.lighten}),
            renderPass(g, Screen, {g.uTexture.lens} \cup (textures \cap {ImageTexture}))>>

\* The effect body: the resources are created, the first frame is rendered and
\* the next one requested
setup(backend, imageSrc, backgroundSrc) ==
  LET g == [NoThree EXCEPT
              !.alive = TRUE, !.backend = backend,
              !.created = {Renderer, Geometry, TargetA(0), TargetB(0)}
                            \cup Materials(backend)
                            \cup (IF imageSrc \/ backend = "WebGLLiquidGlass"
                                  THEN {ImageTexture} ELSE {})
                            \cup (IF backgroundSrc /\ backend = "LiquidGlassThree"
                                  THEN {BackgroundTexture} ELSE {}),
              !.uTexture = [darken |-> TargetA(0), lighten |-> TargetB(0),
                            lens |-> TargetA(0)],
              !.rafId = TRUE]
  IN [g EXCEPT !.frame = animate(g)]

\* A resize callback that replaces the targets and leaves the uniforms alone
resizeObserverStale(g) ==
  LET n == g.resizes + 1
  IN [dispose(g, {TargetA(g.resizes), TargetB(g.resizes)}) EXCEPT
        !.resizes = n, !.created = @ \cup {TargetA(n), TargetB(n)}]

\* The ResizeObserver callback of LiquidGlassThree, for one entry
resizeObserver(g) ==
  LET n == g.resizes + 1
  IN [dispose(g, {TargetA(g.resizes), TargetB(g.resizes)}) EXCEPT
        !.resizes = n, !.created = @ \cup {TargetA(n), TargetB(n)},
        !.uTexture = [darken |-> TargetA(n), lighten |-> TargetB(n), lens |-> TargetA(n)]]

\* The cleanup of the effect
cleanup(g) ==
  [dispose(g, {TargetA(g.resizes), TargetB(g.resizes), Geometry, Renderer}
                \cup Materials(g.backend))
     EXCEPT !.alive = FALSE, !.rafId = FALSE]

----------------------------------------------------------------------------
(* Panel dimensions and the displacement map *)

DEFAULT_WIDTH == 400
DEFAULT_HEIGHT == 200

DefaultDimensions == [width |-> DEFAULT_WIDTH, height |-> DEFAULT_HEIGHT]

\* An updateDimensions that stores whatever it measures
updateDimensionsUnguarded(dim, rect) == [width |-> rect[1], height |-> rect[2]]

\* updateDimensions: a measurement with a zero side is dropped
updateDimensions(dim, rect) ==
  IF rect[1] = 0 \/ rect[2] = 0 THEN dim
  ELSE [width |-> rect[1], height |-> rect[2]]

\* Math.min(config.radius, dimensions.width / 2, dimensions.height / 2), in
\* halves of a px
effectiveRadiusPx(radius, dim) == Min(2 * radius, Min(dim.width, dim.height))

\* A resScale in which the group multiplier replaces the tier's scale
resScaleReplaced(resolutionScale, gm) == Max(300000, Min(800000, 1000 * gm))

\* resScale in millionths: the product of the tier's scale and the group
\* multiplier, brought into [0.3, 0.8]
resScale(resolutionScale, gm) == Max(300000, Min(800000, resolutionScale * gm))

\* What the memo's callback writes into the SVG: the viewBox, the inset of the
\* inner rect (in 1/2000 px) and rx (in quarters of a px)
displacementMap(dim, radius, border, resolutionScale, gm) ==
  LET s == resScale(resolutionScale, gm)
      newwidth == Max(1, (dim.width * s) \div 1000000)
      newheight == Max(1, (dim.height * s) \div 1000000)
  IN [width |-> newwidth, height |-> newheight,
      borderWidth |-> Min(newwidth, newheight) * border,
      rx |-> Min(2 * radius, Min(dim.width, dim.height))]

NoMemo == [rendered |-> FALSE]

\* A memo that recomputes only when the dimensions change
useMemoDimensionsOnly(prev, dim, radius, border, resolutionScale, gm) ==
  IF prev.rendered /\ prev.dimensions = dim THEN prev
  ELSE [rendered |-> TRUE, dimensions |-> dim, resolutionScale |-> resolutionScale,
        groupMultiplier |-> gm,
        map |-> displacementMap(dim, radius, border, resolutionScale, gm)]

\* useMemo(..., [dimensions, config, quality.options.resolutionScale,
\* groupMultiplier]): config is a new object in every render, so every render
\* runs the callback
useMemo(prev, dim, radius, border, resolutionScale, gm) ==
  [rendered |-> TRUE, dimensions |-> dim, resolutionScale |-> resolutionScale,
   groupMultiplier |-> gm,
   map |-> displacementMap(dim, radius, border, resolutionScale, gm)]

\* The render that follows the state updates of a step, in every mounted instance
Render ==
  displacementDataUri' =
    [i \in Instances |->
       IF mounted'[i]
       THEN useMemo(displacementDataUri[i], dimensions'[i], props'[i].radius,
                    props'[i].border, quality'[i].options.resolutionScale,
                    groupMultiplier'[i])
       ELSE NoMemo]

----------------------------------------------------------------------------
(* The perPixel strategy: tagging, mirrors, mask and frames *)

\* The text elements of the panel's content, in document order: one of the
\* class lg-text, one with the attribute data-lg-autotext, one with neither
Elements == <<"title", "note", "text">>
ElementSet == {Elements[k] : k \in 1..Len(Elements)}

\* The default of perPixelTargetSelector and a custom selector
DefaultSelector == "[data-lg-autotext]"
Selectors == {DefaultSelector, ".lg-text"}

\* element.matches(selector)
matches(e, selector) ==
  IF selector = DefaultSelector THEN e = "note" ELSE e = "title"

\* An element nobody touched: not in the document, no data-lg-autotext-auto,
\* no inline colour, no data-lg-mirror-id
NoElement == [attached |-> FALSE, auto |-> FALSE, transparent |-> FALSE, id |-> FALSE]

\* The panel before its first perPixel effect: mirrorsRef.current = [], no
\* mirror in document.body, no mask on the glass layer, no frame queued
NoPixel ==
  [els |-> [e \in ElementSet |-> NoElement], mirrors |-> <<>>, body |-> <<>>,
   mask |-> FALSE, frames |-> 0]

\* shouldTag: a visible element with text and without data-lg-autotext or
\* data-lg-autotext-auto
shouldTag(p, e) == e # "note" /\ ~p.els[e].auto

\* tagAll, and the tagging observer for the elements in `added`
tag(p, added) ==
  [p EXCEPT !.els = [e \in ElementSet |->
                       IF e \in added /\ p.els[e].attached /\ shouldTag(p, e)
                       THEN [p.els[e] EXCEPT !.auto = TRUE] ELSE p.els[e]]]

\* The tagging effect's cleanup: removeAttribute on every [data-lg-autotext-auto]
untag(p) ==
  [p EXCEPT !.els = [e \in ElementSet |->
                       IF p.els[e].attached THEN [p.els[e] EXCEPT !.auto = FALSE]
                       ELSE p.els[e]]]

\* querySelectorAll(`${perPixelTargetSelector}, [data-lg-autotext], [data-lg-autotext-auto]`)
targets(p, selector) ==
  {e \in ElementSet :
     p.els[e].attached /\ (matches(e, selector) \/ e = "note" \/ p.els[e].auto)}

\* The sequence without its entries outside keep
filter(seq, keep) == SelectSeq(seq, LAMBDA m : m \in keep)

\* The sequence without one entry for each entry of gone
RECURSIVE removeEach(_, _)
removeEach(seq, gone) ==
  IF gone = <<>> \/ seq = <<>> THEN seq
  ELSE LET k == CHOOSE k \in 0..Len(seq) :
                  /\ k = 0 \/ seq[k] = gone[1]
                  /\ \A j \in 1..(IF k = 0 THEN Len(seq) ELSE k - 1) : seq[j] # gone[1]
       IN removeEach(IF k = 0 THEN seq
                     ELSE SubSeq(seq, 1, k - 1) \o SubSeq(seq, k + 1, Len(seq)),
                     Tail(gone))

\* The loop of ensureMirrors over the targets from the k-th element on: a
\* target with a mirror is skipped, a mirror is made for the others
RECURSIVE addMirrors(_, _, _, _)
addMirrors(p, ts, k, always) ==
  IF k > Len(Elements) THEN p
  ELSE LET e == Elements[k]
           already == \E j \in 1..Len(p.mirrors) : p.mirrors[j] = e
       IN IF e \notin ts \/ (already /\ ~always) THEN addMirrors(p, ts, k + 1, always)
          ELSE addMirrors([p EXCEPT !.mirrors = Append(@, e), !.body = Append(@, e)],
                          ts, k + 1, always)

\* An ensureMirrors that makes a mirror for every target on every pass
ensureMirrorsAlways(p, selector) ==
  LET ts == targets(p, selector)
      stale == filter(p.mirrors, ElementSet \ ts)
      q == [p EXCEPT !.els = [e \in ElementSet |->
                                IF e \in ts THEN [p.els[e] EXCEPT !.id = TRUE] ELSE p.els[e]],
                     !.mirrors = filter(@, ts),
                     !.body = removeEach(@, stale)]
  IN addMirrors(q, ts, 1, TRUE)

\* ensureMirrors: the mirrors of the elements that are no targets any more are
\* removed, every target gets its data-lg-mirror-id, a mirror is made for
\* every target without one
ensureMirrors(p, selector) ==
  LET ts == targets(p, selector)
      stale == filter(p.mirrors, ElementSet \ ts)
      q == [p EXCEPT !.els = [e \in ElementSet |->
                                IF e \in ts THEN [p.els[e] EXCEPT !.id = TRUE] ELSE p.els[e]],
                     !.mirrors = filter(@, ts),
                     !.body = removeEach(@, stale)]
  IN addMirrors(q, ts, 1, FALSE)

\* updateMask: ensureMirrors, the mask on the glass layer, the colour of every
\* target forced to transparent
updateMask(p, selector) ==
  LET q == ensureMirrors(p, selector)
      ts == targets(q, selector)
  IN [q EXCEPT !.mask = TRUE,
               !.els = [e \in ElementSet |->
                          IF e \in ts THEN [q.els[e] EXCEPT !.transparent = TRUE]
                          ELSE q.els[e]]]

\* A schedule() that requests a frame whether or not one is pending
scheduleRequestsAlways(id) == 1

\* schedule(): the number of frames it requests when rafId is id
scheduleRequests(id) == IF id # 0 THEN 0 ELSE 1

\* The perPixel effect's cleanup on a live panel: the pending frame
\* cancelled, the mask removed, the colour restored on what
\* perPixelTargetSelector matches, the mirrors removed
perPixelTeardown(p, selector, id) ==
  [p EXCEPT !.frames = IF id # 0 THEN @ - 1 ELSE @,
            !.mask = FALSE,
            !.els = [e \in ElementSet |->
                       IF p.els[e].attached /\ matches(e, selector)
                       THEN [p.els[e] EXCEPT !.transparent = FALSE] ELSE p.els[e]],
            !.body = removeEach(@, p.mirrors),
            !.mirrors = <<>>]

\* The cleanups of the tagging and perPixel effects when the panel leaves the
\* tree: its content leaves the document with it
pixelUnmount(p, id) ==
  [p EXCEPT !.frames = IF id # 0 THEN @ - 1 ELSE @,
            !.mask = FALSE,
            !.els = [e \in ElementSet |-> NoElement],
            !.body = removeEach(@, p.mirrors),
            !.mirrors = <<>>]

----------------------------------------------------------------------------
(* The component: props, mount, re-render, unmount *)

NoOverrides == [f \in {} |-> 0]

\* The defaults of the destructured props
DefaultProps ==
  [instanceGroup |-> "default", qualityPreset |-> "auto", preferPerformance |-> TRUE,
   qualityOverrides |-> NoOverrides, autoTextColor |-> FALSE,
   autoTextColorMode |-> "global", textOnDark |-> "#ffffff", textOnLight |-> "#111111",
   hasChildren |-> TRUE, radius |-> 50, border |-> 50,
   perPixelTargetSelector |-> DefaultSelector]

\* The state of an instance that is not in the tree
NoQuality == [preset |-> "medium", options |-> QUALITY_PRESETS.medium]

\* The instances whose listener of that kind the platform would call
Listening(effect, target, type) == {i \in Instances : HasReg(i, effect, target, type)}

\* The recorder keeps one of the detectDevicePreset calls of a dispatch
detectRecord(callers, e) ==
  IF callers = {} THEN lastDetect
  ELSE LET j == CHOOSE j \in callers : TRUE
       IN detectCall(Browser(e), onWindow[j].preferPerformance)

\* The recorder keeps one of the update() runs of a dispatch
sampleRecord(callers, chain) ==
  IF callers = {} THEN lastSample
  ELSE LET j == CHOOSE j \in callers : TRUE IN sampleOf(j, chain, props[j])

\* First render and first run of every effect
Mount(i, pr) ==
  /\ ~mounted[i]
  /\ mounted' = [mounted EXCEPT ![i] = TRUE]
  /\ props' = [props EXCEPT ![i] = pr]
  /\ LET s == registerInstance(
                [groups |-> LG_GROUPS, mult |-> [groupMultiplier EXCEPT ![i] = 1000],
                 last |-> lastBroadcast],
                pr.instanceGroup, i)
     IN /\ LG_GROUPS' = s.groups
        /\ groupMultiplier' = s.mult
        /\ lastBroadcast' = s.last
  /\ unregister' = [unregister EXCEPT ![i] = pr.instanceGroup]
  /\ quality' = [quality EXCEPT ![i] = setQuality(resolveQuality(env, pr), resolveQuality(env, pr))]
  /\ reported' = [reported EXCEPT ![i] = onQualityChanged(resolveQuality(env, pr),
                                                          resolveQuality(env, pr), NoReport)]
  /\ onWindow' = [onWindow EXCEPT ![i] = closureOf(pr)]
  /\ lastDetect' = IF pr.qualityPreset = "auto"
                   THEN detectCall(Browser(env), pr.preferPerformance) ELSE lastDetect
  /\ registry' = registry \cup setupRegs(i, pr, env, ancestors)
  /\ rafId' = [rafId EXCEPT ![i] = 0]
  /\ effectiveTextColor' =
       [effectiveTextColor EXCEPT ![i] =
          IF globalActive(pr) THEN sampledTextColor(ancestors, pr) ELSE pr.textOnLight]
  /\ lastSample' = IF globalActive(pr) THEN sampleOf(i, ancestors, pr) ELSE lastSample
  /\ dimensions' = [dimensions EXCEPT ![i] = updateDimensions(DefaultDimensions, box[i])]
  /\ UNCHANGED <<env, ancestors, box>>
  /\ pixel' = [pixel EXCEPT ![i] =
                  LET tagged == IF taggingActive(pr) THEN tag(@, ElementSet) ELSE @
                  IN IF perPixelActive(pr)
                     THEN updateMask(tagged, pr.perPixelTargetSelector) ELSE tagged]
  /\ Render
  /\ UNCHANGED callVars

\* A render with new props: the cleanups of the effects whose dependencies
\* changed, then those effects again
Rerender(i, pr) ==
  /\ mounted[i]
  /\ pr # props[i]
  /\ LET old == props[i]
         g == groupDeps(pr) # groupDeps(old)
         q == qualityDeps(pr) # qualityDeps(old)
         t == globalDeps(pr) # globalDeps(old)
         x == perPixelDeps(pr) # perPixelDeps(old)
         s0 == groupState
         s == IF g THEN registerInstance(unregisterInstance(s0, unregister[i], i),
                                         pr.instanceGroup, i)
              ELSE s0
         removed == (IF q THEN qualityCleanup(i, env) ELSE {})
                    \cup (IF t THEN globalRegs(i, ancestors) ELSE {})
                    \cup (IF x THEN taggingRegs(i) \cup perPixelCleanup(i) ELSE {})
         added == (IF q THEN qualityRegs(i, env) ELSE {})
                  \cup (IF t /\ globalActive(pr) THEN globalRegs(i, ancestors) ELSE {})
                  \cup (IF x /\ taggingActive(pr) THEN taggingRegs(i) ELSE {})
                  \cup (IF x /\ perPixelActive(pr) THEN perPixelRegs(i) ELSE {})
     IN /\ props' = [props EXCEPT ![i] = pr]
        /\ LG_GROUPS' = s.groups
        /\ groupMultiplier' = s.mult
        /\ lastBroadcast' = s.last
        /\ unregister' = IF g THEN [unregister EXCEPT ![i] = pr.instanceGroup] ELSE unregister
        /\ quality' = IF q THEN [quality EXCEPT ![i] = setQuality(@, resolveQuality(env, pr))]
                      ELSE quality
        /\ reported' = IF q THEN [reported EXCEPT ![i] =
                                    onQualityChanged(quality[i], resolveQuality(env, pr), @)]
                       ELSE reported
        /\ onWindow' = IF q THEN [onWindow EXCEPT ![i] = closureOf(pr)] ELSE onWindow
        /\ lastDetect' = IF q /\ pr.qualityPreset = "auto"
                         THEN detectCall(Browser(env), pr.preferPerformance) ELSE lastDetect
        /\ registry' = (registry \ removed) \cup added
        /\ rafId' = IF x THEN [rafId EXCEPT ![i] = 0] ELSE rafId
        /\ effectiveTextColor' =
             IF t /\ globalActive(pr)
             THEN [effectiveTextColor EXCEPT ![i] = sampledTextColor(ancestors, pr)]
             ELSE effectiveTextColor
        /\ lastSample' = IF t /\ globalActive(pr) THEN sampleOf(i, ancestors, pr) ELSE lastSample
  /\ UNCHANGED <<mounted, env, ancestors, box, dimensions>>
  /\ pixel' =
       IF perPixelDeps(pr) = perPixelDeps(props[i]) THEN pixel
       ELSE [pixel EXCEPT ![i] =
               LET untagged == IF taggingActive(props[i]) THEN untag(@) ELSE @
                   cleaned == IF perPixelActive(props[i])
                              THEN perPixelTeardown(untagged, props[i].perPixelTargetSelector,
                                                    rafId[i])
                              ELSE untagged
                   tagged == IF taggingActive(pr) THEN tag(cleaned, ElementSet) ELSE cleaned
               IN IF perPixelActive(pr)
                  THEN updateMask(tagged, pr.perPixelTargetSelector) ELSE tagged]
  /\ Render
  /\ UNCHANGED callVars

\* The instance leaves the tree: every effect's cleanup runs, its state is dropped
Unmount(i) ==
  /\ mounted[i]
  /\ mounted' = [mounted EXCEPT ![i] = FALSE]
  /\ props' = [props EXCEPT ![i] = DefaultProps]
  /\ LET s == unregisterInstance(groupState, unregister[i], i)
     IN /\ LG_GROUPS' = s.groups
        /\ groupMultiplier' = [s.mult EXCEPT ![i] = 1000]
        /\ lastBroadcast' = s.last
  /\ unregister' = [unregister EXCEPT ![i] = NoGroup]
  /\ quality' = [quality EXCEPT ![i] = NoQuality]
  /\ reported' = [reported EXCEPT ![i] = NoReport]
  /\ onWindow' = [onWindow EXCEPT ![i] = NoClosure]
  /\ registry' = registry \ cleanupRegs(i, env, ancestors)
  /\ rafId' = [rafId EXCEPT ![i] = 0]
  /\ effectiveTextColor' = [effectiveTextColor EXCEPT ![i] = ""]
  /\ dimensions' = [dimensions EXCEPT ![i] = DefaultDimensions]
  /\ UNCHANGED <<env, lastDetect, ancestors, lastSample, box>>
  /\ pixel' = [pixel EXCEPT ![i] = pixelUnmount(@, rafId[i])]
  /\ Render
  /\ UNCHANGED callVars

----------------------------------------------------------------------------
(* Events *)

\* onWindow of every instance whose listener is in `called`
qualityAfter(called, e) ==
  [i \in Instances |->
     IF i \in called /\ onWindow[i].registered
     THEN setQuality(quality[i], onWindowQuality(e, onWindow[i]))
     ELSE quality[i]]

\* The calls of onQualityChanged that those runs of onWindow make
reportedAfter(called, e) ==
  [i \in Instances |->
     IF i \in called /\ onWindow[i].registered
     THEN onQualityChanged(quality[i], onWindowQuality(e, onWindow[i]), reported[i])
     ELSE reported[i]]

\* update() of every instance whose listener or observer is in `called`
textAfter(called, chain) ==
  [i \in Instances |->
     IF i \in called THEN sampledTextColor(chain, props[i]) ELSE effectiveTextColor[i]]

\* schedule() of every instance in `called`: a frame is requested unless one is pending
rafAfter(called) ==
  [i \in Instances |->
     IF i \in called /\ scheduleRequests(rafId[i]) # 0 THEN 1 ELSE rafId[i]]

\* requestAnimationFrame queues a callback for every frame schedule() requests
pixelAfter(called) ==
  [i \in Instances |->
     IF i \in called THEN [pixel[i] EXCEPT !.frames = @ + scheduleRequests(rafId[i])]
     ELSE pixel[i]]

\* The viewport is resized to width w: window 'resize' is dispatched
WindowResize(w) ==
  /\ \E i \in Instances : mounted[i]
  /\ LET e == [env EXCEPT !.innerWidth = w]
         qs == Listening("quality", "window", "resize")
         ts == Listening("global", "window", "resize")
         ps == Listening("perPixel", "window", "resize")
     IN /\ env' = e
        /\ quality' = qualityAfter(qs, e)
        /\ reported' = reportedAfter(qs, e)
        /\ lastDetect' = detectRecord(qs, e)
        /\ effectiveTextColor' = textAfter(ts, ancestors)
        /\ lastSample' = sampleRecord(ts, ancestors)
        /\ rafId' = rafAfter(ps)
  /\ UNCHANGED <<mounted, props, groupVars, registry, onWindow, ancestors, box, dimensions>>
  /\ pixel' = pixelAfter(Listening("perPixel", "window", "resize"))
  /\ Render
  /\ UNCHANGED callVars

\* The pixel ratio becomes d: the (resolution: 2dppx) query reports a change
\* when it starts or stops matching
DensityChange(d) ==
  /\ \E i \in Instances : mounted[i]
  /\ d # env.devicePixelRatio
  /\ LET e == [env EXCEPT !.devicePixelRatio = d]
         flips == (env.devicePixelRatio = 20) # (d = 20)
         qs == IF flips THEN Listening("quality", "matchMedia", "change") ELSE {}
     IN /\ env' = e
        /\ quality' = qualityAfter(qs, e)
        /\ reported' = reportedAfter(qs, e)
        /\ lastDetect' = detectRecord(qs, e)
  /\ UNCHANGED <<mounted, props, groupVars, lifeVars, onWindow, textVars, box, dimensions>>
  /\ Render
  /\ UNCHANGED <<callVars, pixel>>

\* The user switches the reduced-motion preference: nothing listens for it
MotionPreference(m) ==
  /\ m # env.reducedMotion
  /\ env' = [env EXCEPT !.reducedMotion = m]
  /\ UNCHANGED <<mounted, props, groupVars, lifeVars, quality, onWindow, lastDetect, reported,
                 textVars, box, dimensions>>
  /\ Render
  /\ UNCHANGED <<callVars, pixel>>

\* detectDevicePreset applied on a platform p
Detect(p, preferPerformance) ==
  /\ lastDetect' = detectCall(p, preferPerformance)
  /\ UNCHANGED <<mounted, props, groupVars, lifeVars, env, quality, onWindow, reported,
                 textVars, box, dimensions>>
  /\ Render
  /\ UNCHANGED <<callVars, pixel>>

\* A scroll anywhere in the document (capture listeners on window)
Scroll ==
  /\ Listening("global", "window", "scroll") \cup Listening("perPixel", "window", "scroll") # {}
  /\ LET ts == Listening("global", "window", "scroll")
         ps == Listening("perPixel", "window", "scroll")
     IN /\ effectiveTextColor' = textAfter(ts, ancestors)
        /\ lastSample' = sampleRecord(ts, ancestors)
        /\ rafId' = rafAfter(ps)
  /\ UNCHANGED <<mounted, props, groupVars, registry, qualityVars, ancestors, box, dimensions>>
  /\ pixel' = pixelAfter(Listening("perPixel", "window", "scroll"))
  /\ Render
  /\ UNCHANGED callVars

\* The pointer moves
PointerMove ==
  /\ Listening("perPixel", "window", "pointermove") # {}
  /\ rafId' = rafAfter(Listening("perPixel", "window", "pointermove"))
  /\ UNCHANGED <<mounted, props, groupVars, registry, qualityVars, textVars, box, dimensions>>
  /\ pixel' = pixelAfter(Listening("perPixel", "window", "pointermove"))
  /\ Render
  /\ UNCHANGED callVars

\* The panel or its content changes size or structure: the perPixel effect's
\* ResizeObserver or MutationObserver calls schedule()
ContentChange(i) ==
  /\ HasReg(i, "perPixel", "ResizeObserver", "container+targets")
       \/ HasReg(i, "perPixel", "MutationObserver", "subtree")
  /\ rafId' = rafAfter({i})
  /\ UNCHANGED <<mounted, props, groupVars, registry, qualityVars, textVars, box, dimensions>>
  /\ pixel' = pixelAfter({i})
  /\ Render
  /\ UNCHANGED callVars

\* The requested animation frame runs: rafId = 0, then updateMask()
Frame(i) ==
  /\ pixel[i].frames > 0
  /\ rafId' = [rafId EXCEPT ![i] = 0]
  /\ UNCHANGED <<mounted, props, groupVars, registry, qualityVars, textVars, box, dimensions>>
  /\ pixel' = [pixel EXCEPT ![i] =
                  updateMask([@ EXCEPT !.frames = @ - 1], props[i].perPixelTargetSelector)]
  /\ Render
  /\ UNCHANGED callVars

\* The background of the k-th ancestor becomes c; when it changes through the
\* node's class or style attribute the MutationObservers on that node run update()
SetBackground(k, c, byAttribute) ==
  /\ k \in 1..Len(ancestors)
  /\ c # ancestors[k]
  /\ LET chain == [ancestors EXCEPT ![k] = c]
         ts == IF byAttribute
               THEN {i \in Instances :
                       \E r \in registry : r.owner = i /\ r.effect = "global"
                                           /\ r.target = "MutationObserver" /\ r.node = k}
               ELSE {}
     IN /\ ancestors' = chain
        /\ effectiveTextColor' = textAfter(ts, chain)
        /\ lastSample' = IF ts = {} THEN [lastSample EXCEPT !.fresh = FALSE]
                         ELSE sampleRecord(ts, chain)
  /\ UNCHANGED <<mounted, props, groupVars, lifeVars, qualityVars, box, dimensions>>
  /\ Render
  /\ UNCHANGED <<callVars, pixel>>

\* The container's box becomes w by h: the dimension effect's ResizeObserver
\* calls updateDimensions
Measure(i, w, h) ==
  /\ HasReg(i, "dimensions", "ResizeObserver", "container")
  /\ <<w, h>> # box[i]
  /\ box' = [box EXCEPT ![i] = <<w, h>>]
  /\ dimensions' = [dimensions EXCEPT ![i] = updateDimensions(@, <<w, h>>)]
  /\ UNCHANGED <<mounted, props, groupVars, lifeVars, qualityVars, textVars>>
  /\ Render
  /\ UNCHANGED <<callVars, pixel>>

\* An element is inserted into the panel's content: the tagging effect's
\* observer tags it, the perPixel effect's observer calls schedule()
DomAttach(i, e) ==
  /\ mounted[i] /\ props[i].hasChildren
  /\ ~pixel[i].els[e].attached
  /\ LET tagging == HasReg(i, "tagging", "MutationObserver", "subtree")
         called == IF HasReg(i, "perPixel", "MutationObserver", "subtree") THEN {i} ELSE {}
         attached == [pixel EXCEPT ![i].els[e].attached = TRUE]
         tagged == IF tagging THEN [attached EXCEPT ![i] = tag(@, {e})] ELSE attached
     IN /\ pixel' = [tagged EXCEPT ![i].frames =
                       IF i \in called THEN @ + scheduleRequests(rafId[i]) ELSE @]
        /\ rafId' = rafAfter(called)
  /\ UNCHANGED <<mounted, props, groupVars, registry, qualityVars, textVars, box, dimensions>>
  /\ Render
  /\ UNCHANGED callVars

\* An element is removed from the panel's content: the perPixel effect's
\* observer calls schedule()
DomDetach(i, e) ==
  /\ mounted[i]
  /\ pixel[i].els[e].attached
  /\ LET called == IF HasReg(i, "perPixel", "MutationObserver", "subtree") THEN {i} ELSE {}
     IN /\ pixel' = [pixel EXCEPT ![i].els[e].attached = FALSE,
                                  ![i].frames =
                                    IF i \in called THEN @ + scheduleRequests(rafId[i]) ELSE @]
        /\ rafId' = rafAfter(called)
  /\ UNCHANGED <<mounted, props, groupVars, registry, qualityVars, textVars, box, dimensions>>
  /\ Render
  /\ UNCHANGED callVars

\* A prop that was not passed
NotPassed ==
  [text |-> Undefined, core |-> Undefined, syntax |-> "undefined", alpha |-> <<1, 1>>,
   head |-> <<>>, name |-> <<>>, args |-> <<>>]

\* No call yet: the arguments and the result of a call replace these fields
NoCall ==
  [fn |-> "none", sample |-> NotPassed, background |-> Undefined, frost |-> 0, alpha |-> 0,
   again |-> FALSE, first |-> <<>>, result |-> <<>>]

\* One of the colour-string functions is called
Call(record) ==
  /\ lastCall' = record
  /\ UNCHANGED <<mounted, props, groupVars, lifeVars, qualityVars, textVars, mapVars, canvas, three, pixel>>

\* registerInstance(group, cb) is called with a callback of its own; the
\* listeners in faulty throw when they are called
RegisterCallback(cb, group, faulty) ==
  /\ ~mounted[cb]
  /\ unregister[cb] = NoGroup
  /\ LET t == withThrowing(groupState, registerInstance(groupState, group, cb), faulty)
     IN /\ LG_GROUPS' = t.groups
        /\ groupMultiplier' = t.mult
        /\ lastBroadcast' = t.last
        /\ unregister' = [unregister EXCEPT ![cb] = IF t.last.escaped THEN NoGroup ELSE group]
  /\ UNCHANGED <<mounted, props, lifeVars, qualityVars, textVars, mapVars, callVars, pixel>>

\* The function that registerInstance returned for cb is called
UnregisterCallback(cb, faulty) ==
  /\ ~mounted[cb]
  /\ unregister[cb] # NoGroup
  /\ LET t == withThrowing(groupState,
                           unregisterInstance(groupState, unregister[cb], cb), faulty)
     IN /\ LG_GROUPS' = t.groups
        /\ groupMultiplier' = t.mult
        /\ lastBroadcast' = t.last
  /\ unregister' = [unregister EXCEPT ![cb] = NoGroup]
  /\ UNCHANGED <<mounted, props, lifeVars, qualityVars, textVars, mapVars, callVars, pixel>>

\* A Three.js panel mounts: its effect runs
ThreeMount(backend, imageSrc, backgroundSrc) ==
  /\ ~three[backend].alive
  /\ three' = [three EXCEPT ![backend] = setup(backend, imageSrc, backgroundSrc)]
  /\ UNCHANGED <<mounted, props, groupVars, lifeVars, qualityVars, textVars, mapVars, lastCall,
                 canvas, pixel>>

\* A dependency of the effect changes: its cleanup, then the effect again
ThreeRerender(backend, imageSrc, backgroundSrc) ==
  /\ three[backend].alive
  /\ LET old == cleanup(three[backend])
     IN three' = [three EXCEPT ![backend] =
                    [setup(backend, imageSrc, backgroundSrc) EXCEPT
                       !.previous = [NoLifetime EXCEPT !.created = old.created,
                                                       !.disposed = old.disposed,
                                                       !.twice = old.twice,
                                                       !.rafId = old.rafId]]]
  /\ UNCHANGED <<mounted, props, groupVars, lifeVars, qualityVars, textVars, mapVars, lastCall,
                 canvas, pixel>>

\* The requested animation frame runs: the passes are rendered and the next
\* frame is requested
ThreeFrame(backend) ==
  /\ three[backend].rafId
  /\ three' = [three EXCEPT ![backend].frame = animate(three[backend])]
  /\ UNCHANGED <<mounted, props, groupVars, lifeVars, qualityVars, textVars, mapVars, lastCall,
                 canvas, pixel>>

\* The container of LiquidGlassThree changes size: its ResizeObserver reports it
ThreeResize ==
  /\ three["LiquidGlassThree"].alive
  /\ three["LiquidGlassThree"].resizes < MaxResizes
  /\ three' = [three EXCEPT !["LiquidGlassThree"] = resizeObserver(@)]
  /\ UNCHANGED <<mounted, props, groupVars, lifeVars, qualityVars, textVars, mapVars, lastCall,
                 canvas, pixel>>

\* The panel leaves the tree: the cleanup of its effect runs
ThreeUnmount(backend) ==
  /\ three[backend].alive
  /\ three' = [three EXCEPT ![backend] = cleanup(@)]
  /\ UNCHANGED <<mounted, props, groupVars, lifeVars, qualityVars, textVars, mapVars, lastCall,
                 canvas, pixel>>

\* The canvas panel mounts with or without a backdrop: its draw effect runs
CanvasMount(backdropSource) ==
  /\ ~canvas.mounted
  /\ canvas' = [canvas EXCEPT !.mounted = TRUE, !.backdropSource = backdropSource,
                              !.effect = draw([canvas EXCEPT !.backdropSource = backdropSource])]
  /\ UNCHANGED <<mounted, props, groupVars, lifeVars, qualityVars, textVars, mapVars, lastCall, three, pixel>>

\* backdropSource changes: the draw effect runs again
CanvasBackdrop(backdropSource) ==
  /\ canvas.mounted
  /\ backdropSource # canvas.backdropSource
  /\ canvas' = [canvas EXCEPT !.backdropSource = backdropSource,
                              !.effect = draw([canvas EXCEPT !.backdropSource = backdropSource])]
  /\ UNCHANGED <<mounted, props, groupVars, lifeVars, qualityVars, textVars, mapVars, lastCall, three, pixel>>

\* The canvas panel is rendered with another size, radius or border: the draw
\* effect runs again when one of its dependencies has changed
CanvasProps(width, height, radius, border) ==
  /\ canvas.mounted
  /\ <<width, height, radius, border>>
       # <<canvas.width, canvas.height, canvas.radius, canvas.border>>
  /\ LET c == [canvas EXCEPT !.width = width, !.height = height,
                             !.radius = radius, !.border = border]
     IN canvas' = [c EXCEPT !.effect = IF drawDeps(c) # drawDeps(canvas) THEN draw(c) ELSE @]
  /\ UNCHANGED <<mounted, props, groupVars, lifeVars, qualityVars, textVars, mapVars, lastCall, three, pixel>>

\* The window moves to a screen of another density: nothing re-renders the
\* canvas panel
CanvasDensity(devicePixelRatio) ==
  /\ devicePixelRatio # canvas.devicePixelRatio
  /\ canvas' = [canvas EXCEPT !.devicePixelRatio = devicePixelRatio]
  /\ UNCHANGED <<mounted, props, groupVars, lifeVars, qualityVars, textVars, mapVars, lastCall, three, pixel>>

\* The canvas panel leaves the tree
CanvasUnmount ==
  /\ canvas.mounted
  /\ canvas' = [canvas EXCEPT !.mounted = FALSE, !.backdropSource = FALSE, !.effect = NoEffect]
  /\ UNCHANGED <<mounted, props, groupVars, lifeVars, qualityVars, textVars, mapVars, lastCall, three, pixel>>

----------------------------------------------------------------------------
(* Inputs *)

DefaultEnv ==
  [innerWidth |-> 1920, devicePixelRatio |-> 10, hardwareConcurrency |-> 8,
   deviceMemory |-> 8, reducedMotion |-> FALSE, mqAddEventListener |-> TRUE]

\* Computed background colours: transparent is rgba(0, 0, 0, 0)
Transparent == [syntax |-> "rgba", r |-> 0, g |-> 0, b |-> 0, a |-> <<0, 1>>]
NearBlack   == [syntax |-> "rgb", r |-> 10, g |-> 10, b |-> 10]
SemiWhite   == [syntax |-> "rgba", r |-> 255, g |-> 255, b |-> 255, a |-> <<1, 2>>]
Empty       == [syntax |-> "empty"]    \* getComputedStyle gives "" (no resolved colour)
Backgrounds == {Transparent, NearBlack, SemiWhite, Empty}

DefaultChain == <<Transparent, Transparent>>
Chains == UNION {[1..n -> Backgrounds] : n \in 2..MaxDepth}

DefaultBoxes == [i \in Instances |-> <<DEFAULT_WIDTH, DEFAULT_HEIGHT>>]

\* Nothing is mounted; the containers will measure b
InitBoxes(b) ==
  /\ box = b
  /\ dimensions = [i \in Instances |-> DefaultDimensions]
  /\ displacementDataUri = [i \in Instances |-> NoMemo]

InitCore(e, chain) ==
  /\ mounted = [i \in Instances |-> FALSE]
  /\ props = [i \in Instances |-> DefaultProps]
  /\ LG_GROUPS = [g \in {} |-> 0]
  /\ groupMultiplier = [i \in Instances |-> 1000]
  /\ unregister = [i \in Instances |-> NoGroup]
  /\ lastBroadcast = NoBroadcast
  /\ registry = {}
  /\ rafId = [i \in Instances |-> 0]
  /\ env = e
  /\ quality = [i \in Instances |-> NoQuality]
  /\ reported = [i \in Instances |-> NoReport]
  /\ onWindow = [i \in Instances |-> NoClosure]
  /\ lastDetect = NoDetect
  /\ ancestors = chain
  /\ effectiveTextColor = [i \in Instances |-> ""]
  /\ lastSample = NoSample

\* No colour-string function was called; no canvas panel is mounted
InitCalls(platform) ==
  /\ pixel = [i \in Instances |-> NoPixel]
  /\ three = [b \in Backends |-> NoThree]
  /\ lastCall = NoCall
  /\ canvas = [platform |-> platform, mounted |-> FALSE, backdropSource |-> FALSE,
               effect |-> NoEffect, devicePixelRatio |-> 10,
               width |-> DEFAULT_WIDTH, height |-> DEFAULT_HEIGHT,
               radius |-> DEFAULTS_radius, border |-> DEFAULTS_border]

InitWith(e, chain) ==
  InitCore(e, chain) /\ InitBoxes(DefaultBoxes) /\ InitCalls(DefaultPlatform)

\* Colours in the syntaxes that carry an alpha, each with the alpha it states
AlphaColours ==
  { [text |-> <<"r", "g", "b", "a", "(", "2", "5", "5", ",", " ", "2", "5", "5", ",", " ", "2", "5", "5", ",", " ", "0", ".", "4", ")">>,
     core |-> <<"r", "g", "b", "a", "(", "2", "5", "5", ",", " ", "2", "5", "5", ",", " ", "2", "5", "5", ",", " ", "0", ".", "4", ")">>,
     syntax |-> "rgba", alpha |-> <<4, 10>>,
     head |-> <<>>,
     name |-> <<>>, args |-> <<>>],
    [text |-> <<"r", "g", "b", "a", "(", "1", "0", ",", "2", "0", ",", "3", "0", ",", ".", "5", ")">>,
     core |-> <<"r", "g", "b", "a", "(", "1", "0", ",", "2", "0", ",", "3", "0", ",", ".", "5", ")">>,
     syntax |-> "rgba", alpha |-> <<1, 2>>,
     head |-> <<>>,
     name |-> <<>>, args |-> <<>>],
    [text |-> <<"R", "G", "B", "A", "(", "1", ",", " ", "2", ",", " ", "3", ",", " ", "0", ".", "2", "5", ")">>,
     core |-> <<"R", "G", "B", "A", "(", "1", ",", " ", "2", ",", " ", "3", ",", " ", "0", ".", "2", "5", ")">>,
     syntax |-> "rgba", alpha |-> <<1, 4>>,
     head |-> <<>>,
     name |-> <<>>, args |-> <<>>],
    [text |-> <<" ", "r", "g", "b", "a", "(", "1", ",", "2", ",", "3", ",", "0", ".", "5", ")", " ">>,
     core |-> <<"r", "g", "b", "a", "(", "1", ",", "2", ",", "3", ",", "0", ".", "5", ")">>,
     syntax |-> "rgba", alpha |-> <<1, 2>>,
     head |-> <<>>,
     name |-> <<>>, args |-> <<>>],
    [text |-> <<"r", "g", "b", "a", "(", "0", ",", "0", ",", "0", ",", "0", ")">>,
     core |-> <<"r", "g", "b", "a", "(", "0", ",", "0", ",", "0", ",", "0", ")">>,
     syntax |-> "rgba", alpha |-> <<0, 1>>,
     head |-> <<>>,
     name |-> <<>>, args |-> <<>>],
    [text |-> <<"r", "g", "b", "a", "(", "0", ",", " ", "0", ",", " ", "0", ",", " ", "0", ".", "0", ")">>,
     core |-> <<"r", "g", "b", "a", "(", "0", ",", " ", "0", ",", " ", "0", ",", " ", "0", ".", "0", ")">>,
     syntax |-> "rgba", alpha |-> <<0, 1>>,
     head |-> <<>>,
     name |-> <<>>, args |-> <<>>],
    [text |-> <<"r", "g", "b", "a", "(", "0", ",", " ", "0", ",", " ", "0", ",", " ", "1", ")">>,
     core |-> <<"r", "g", "b", "a", "(", "0", ",", " ", "0", ",", " ", "0", ",", " ", "1", ")">>,
     syntax |-> "rgba", alpha |-> <<1, 1>>,
     head |-> <<>>,
     name |-> <<>>, args |-> <<>>],
    [text |-> <<"r", "g", "b", "a", "(", "0", ",", "0", ",", "0", ",", "1", ".", "0", ")">>,
     core |-> <<"r", "g", "b", "a", "(", "0", ",", "0", ",", "0", ",", "1", ".", "0", ")">>,
     syntax |-> "rgba", alpha |-> <<1, 1>>,
     head |-> <<>>,
     name |-> <<>>, args |-> <<>>],
    [text |-> <<"h", "s", "l", "a", "(", "0", ",", " ", "0", "%", ",", " ", "1", "0", "0", "%", ",", " ", "0", ".", "5", ")">>,
     core |-> <<"h", "s", "l", "a", "(", "0", ",", " ", "0", "%", ",", " ", "1", "0", "0", "%", ",", " ", "0", ".", "5", ")">>,
     syntax |-> "hsla", alpha |-> <<1, 2>>,
     head |-> <<>>,
     name |-> <<>>, args |-> <<>>],
    [text |-> <<"h", "s", "l", "a", "(", "0", ",", " ", "0", "%", ",", " ", "1", "0", "0", "%", ",", " ", "1", ")">>,
     core |-> <<"h", "s", "l", "a", "(", "0", ",", " ", "0", "%", ",", " ", "1", "0", "0", "%", ",", " ", "1", ")">>,
     syntax |-> "hsla", alpha |-> <<1, 1>>,
     head |-> <<>>,
     name |-> <<>>, args |-> <<>>],
    [text |-> <<"h", "s", "l", "a", "(", "0", ",", " ", "0", "%", ",", " ", "1", "0", "0", "%", ",", " ", "0", ")">>,
     core |-> <<"h", "s", "l", "a", "(", "0", ",", " ", "0", "%", ",", " ", "1", "0", "0", "%", ",", " ", "0", ")">>,
     syntax |-> "hsla", alpha |-> <<0, 1>>,
     head |-> <<>>,
     name |-> <<>>, args |-> <<>>],
    [text |-> <<"h", "s", "l", "(", "0", " ", "0", "%", " ", "1", "0", "0", "%", " ", "/", " ", "0", ".", "1", ")">>,
     core |-> <<"h", "s", "l", "(", "0", " ", "0", "%", " ", "1", "0", "0", "%", " ", "/", " ", "0", ".", "1", ")">>,
     syntax |-> "hslSlash", alpha |-> <<1, 10>>,
     head |-> <<>>,
     name |-> <<>>, args |-> <<>>],
    [text |-> <<"h", "s", "l", "(", "2", "1", "0", " ", "5", "0", "%", " ", "4", "0", "%", " ", "/", " ", ".", "7", "5", ")">>,
     core |-> <<"h", "s", "l", "(", "2", "1", "0", " ", "5", "0", "%", " ", "4", "0", "%", " ", "/", " ", ".", "7", "5", ")">>,
     syntax |-> "hslSlash", alpha |-> <<3, 4>>,
     head |-> <<>>,
     name |-> <<>>, args |-> <<>>],
    [text |-> <<"h", "s", "l", "(", "0", " ", "0", "%", " ", "1", "0", "0", "%", " ", "/", " ", "1", ")">>,
     core |-> <<"h", "s", "l", "(", "0", " ", "0", "%", " ", "1", "0", "0", "%", " ", "/", " ", "1", ")">>,
     syntax |-> "hslSlash", alpha |-> <<1, 1>>,
     head |-> <<>>,
     name |-> <<>>, args |-> <<>>],
    [text |-> <<"h", "s", "l", "(", "0", " ", "0", "%", " ", "1", "0", "0", "%", " ", "/", " ", "0", ")">>,
     core |-> <<"h", "s", "l", "(", "0", " ", "0", "%", " ", "1", "0", "0", "%", " ", "/", " ", "0", ")">>,
     syntax |-> "hslSlash", alpha |-> <<0, 1>>,
     head |-> <<>>,
     name |-> <<>>, args |-> <<>>],
    [text |-> <<"#", "f", "f", "f", "8">>,
     core |-> <<"#", "f", "f", "f", "8">>,
     syntax |-> "hex4", alpha |-> <<136, 255>>,
     head |-> <<>>,
     name |-> <<>>, args |-> <<>>],
    [text |-> <<"#", "F", "F", "F", "1">>,
     core |-> <<"#", "F", "F", "F", "1">>,
     syntax |-> "hex4", alpha |-> <<17, 255>>,
     head |-> <<>>,
     name |-> <<>>, args |-> <<>>],
    [text |-> <<"#", "f", "f", "f", "0">>,
     core |-> <<"#", "f", "f", "f", "0">>,
     syntax |-> "hex4", alpha |-> <<0, 255>>,
     head |-> <<>>,
     name |-> <<>>, args |-> <<>>],
    [text |-> <<"#", "f", "f", "f", "f">>,
     core |-> <<"#", "f", "f", "f", "f">>,
     syntax |-> "hex4", alpha |-> <<255, 255>>,
     head |-> <<>>,
     name |-> <<>>, args |-> <<>>],
    [text |-> <<"#", "f", "f", "0", "0", "0", "0", "8", "0">>,
     core |-> <<"#", "f", "f", "0", "0", "0", "0", "8", "0">>,
     syntax |-> "hex8", alpha |-> <<128, 255>>,
     head |-> <<>>,
     name |-> <<>>, args |-> <<>>],
    [text |-> <<"#", "0", "0", "f", "f", "0", "0", "f", "e">>,
     core |-> <<"#", "0", "0", "f", "f", "0", "0", "f", "e">>,
     syntax |-> "hex8", alpha |-> <<254, 255>>,
     head |-> <<>>,
     name |-> <<>>, args |-> <<>>],
    [text |-> <<"#", "f", "f", "0", "0", "0", "0", "0", "0">>,
     core |-> <<"#", "f", "f", "0", "0", "0", "0", "0", "0">>,
     syntax |-> "hex8", alpha |-> <<0, 255>>,
     head |-> <<>>,
     name |-> <<>>, args |-> <<>>],
    [text |-> <<"#", "F", "F", "0", "0", "0", "0", "F", "F">>,
     core |-> <<"#", "F", "F", "0", "0", "0", "0", "F", "F">>,
     syntax |-> "hex8", alpha |-> <<255, 255>>,
     head |-> <<>>,
     name |-> <<>>, args |-> <<>>] }

\* Opaque colours in the syntaxes addTransparencyToColor parses, each with its
\* channels written as the start of an rgba( or hsla( value
SolidColours ==
  { [text |-> <<"#", "f", "f", "f">>,
     core |-> <<"#", "f", "f", "f">>,
     syntax |-> "hex3", alpha |-> <<1, 1>>,
     head |-> <<"r", "g", "b", "a", "(", "2", "5", "5", ",", " ", "2", "5", "5", ",", " ", "2", "5", "5", ",", " ">>,
     name |-> <<>>, args |-> <<>>],
    [text |-> <<"#", "f", "8", "0">>,
     core |-> <<"#", "f", "8", "0">>,
     syntax |-> "hex3", alpha |-> <<1, 1>>,
     head |-> <<"r", "g", "b", "a", "(", "2", "5", "5", ",", " ", "1", "3", "6", ",", " ", "0", ",", " ">>,
     name |-> <<>>, args |-> <<>>],
    [text |-> <<"#", "f", "f", "0", "0", "0", "0">>,
     core |-> <<"#", "f", "f", "0", "0", "0", "0">>,
     syntax |-> "hex6", alpha |-> <<1, 1>>,
     head |-> <<"r", "g", "b", "a", "(", "2", "5", "5", ",", " ", "0", ",", " ", "0", ",", " ">>,
     name |-> <<>>, args |-> <<>>],
    [text |-> <<"#", "0", "0", "F", "F", "7", "f">>,
     core |-> <<"#", "0", "0", "F", "F", "7", "f">>,
     syntax |-> "hex6", alpha |-> <<1, 1>>,
     head |-> <<"r", "g", "b", "a", "(", "0", ",", " ", "2", "5", "5", ",", " ", "1", "2", "7", ",", " ">>,
     name |-> <<>>, args |-> <<>>],
    [text |-> <<" ", "#", "f", "f", "0", "0", "0", "0", " ">>,
     core |-> <<"#", "f", "f", "0", "0", "0", "0">>,
     syntax |-> "hex6", alpha |-> <<1, 1>>,
     head |-> <<"r", "g", "b", "a", "(", "2", "5", "5", ",", " ", "0", ",", " ", "0", ",", " ">>,
     name |-> <<>>, args |-> <<>>],
    [text |-> <<"r", "g", "b", "(", "2", "5", "5", ",", " ", "0", ",", " ", "0", ")">>,
     core |-> <<"r", "g", "b", "(", "2", "5", "5", ",", " ", "0", ",", " ", "0", ")">>,
     syntax |-> "rgb", alpha |-> <<1, 1>>,
     head |-> <<"r", "g", "b", "a", "(", "2", "5", "5", ",", " ", "0", ",", " ", "0", ",", " ">>,
     name |-> <<>>, args |-> <<>>],
    [text |-> <<"r", "g", "b", "(", "0", ",", "1", "2", "8", ",", "2", "5", "5", ")">>,
     core |-> <<"r", "g", "b", "(", "0", ",", "1", "2", "8", ",", "2", "5", "5", ")">>,
     syntax |-> "rgb", alpha |-> <<1, 1>>,
     head |-> <<"r", "g", "b", "a", "(", "0", ",", " ", "1", "2", "8", ",", " ", "2", "5", "5", ",", " ">>,
     name |-> <<>>, args |-> <<>>],
    [text |-> <<"h", "s", "l", "(", "1", "2", "0", ",", " ", "5", "0", "%", ",", " ", "5", "0", "%", ")">>,
     core |-> <<"h", "s", "l", "(", "1", "2", "0", ",", " ", "5", "0", "%", ",", " ", "5", "0", "%", ")">>,
     syntax |-> "hsl", alpha |-> <<1, 1>>,
     head |-> <<"h", "s", "l", "a", "(", "1", "2", "0", ",", " ", "5", "0", "%", ",", " ", "5", "0", "%", ",", " ">>,
     name |-> <<>>, args |-> <<>>],
    [text |-> <<"H", "S", "L", "(", "0", ",", "0", "%", ",", "1", "0", "0", "%", ")">>,
     core |-> <<"H", "S", "L", "(", "0", ",", "0", "%", ",", "1", "0", "0", "%", ")">>,
     syntax |-> "hsl", alpha |-> <<1, 1>>,
     head |-> <<"h", "s", "l", "a", "(", "0", ",", " ", "0", "%", ",", " ", "1", "0", "0", "%", ",", " ">>,
     name |-> <<>>, args |-> <<>>] }

\* Values in none of those syntaxes
OtherColours ==
  { [text |-> <<"r", "e", "d">>,
     core |-> <<"r", "e", "d">>,
     syntax |-> "named", alpha |-> <<1, 1>>,
     head |-> <<>>,
     name |-> <<>>, args |-> <<>>],
    [text |-> <<" ", "r", "e", "d", " ">>,
     core |-> <<"r", "e", "d">>,
     syntax |-> "named", alpha |-> <<1, 1>>,
     head |-> <<>>,
     name |-> <<>>, args |-> <<>>],
    [text |-> <<"t", "r", "a", "n", "s", "p", "a", "r", "e", "n", "t">>,
     core |-> <<"t", "r", "a", "n", "s", "p", "a", "r", "e", "n", "t">>,
     syntax |-> "named", alpha |-> <<0, 1>>,
     head |-> <<>>,
     name |-> <<>>, args |-> <<>>],
    [text |-> <<"#", "f", "f">>,
     core |-> <<"#", "f", "f">>,
     syntax |-> "nothing", alpha |-> <<1, 1>>,
     head |-> <<>>,
     name |-> <<>>, args |-> <<>>],
    [text |-> <<>>,
     core |-> <<>>,
     syntax |-> "empty", alpha |-> <<1, 1>>,
     head |-> <<>>,
     name |-> <<>>, args |-> <<>>] }

\* Image references
UrlBackgrounds ==
  { [text |-> <<"u", "r", "l", "(", "a", ".", "p", "n", "g", ")">>,
     core |-> <<"u", "r", "l", "(", "a", ".", "p", "n", "g", ")">>,
     syntax |-> "url", alpha |-> <<1, 1>>,
     head |-> <<>>,
     name |-> <<>>, args |-> <<>>],
    [text |-> <<" ", "u", "r", "l", "(", "a", ".", "p", "n", "g", ")", " ">>,
     core |-> <<"u", "r", "l", "(", "a", ".", "p", "n", "g", ")">>,
     syntax |-> "url", alpha |-> <<1, 1>>,
     head |-> <<>>,
     name |-> <<>>, args |-> <<>>],
    [text |-> <<"u", "r", "l", "(", "g", "r", "a", "d", "i", "e", "n", "t", ".", "p", "n", "g", ")">>,
     core |-> <<"u", "r", "l", "(", "g", "r", "a", "d", "i", "e", "n", "t", ".", "p", "n", "g", ")">>,
     syntax |-> "url", alpha |-> <<1, 1>>,
     head |-> <<>>,
     name |-> <<>>, args |-> <<>>],
    [text |-> <<"u", "r", "l", "(", "i", "m", "g", "/", "b", "g", " ", "1", ".", "j", "p", "g", ")">>,
     core |-> <<"u", "r", "l", "(", "i", "m", "g", "/", "b", "g", " ", "1", ".", "j", "p", "g", ")">>,
     syntax |-> "url", alpha |-> <<1, 1>>,
     head |-> <<>>,
     name |-> <<>>, args |-> <<>>] }

\* Gradients of three- and six-digit hex, rgb( and hsl( stops, each with its
\* name and its arguments: what precedes the colour, the colour and what follows it
Gradients ==
  { [text |-> <<"l", "i", "n", "e", "a", "r", "-", "g", "r", "a", "d", "i", "e", "n", "t", "(", "4", "5", "d", "e", "g", ",", " ", "#", "f", "f", "0", "0", "0", "0", ",", " ", "#", "0", "0", "f", "f", "0", "0", ")">>,
     core |-> <<"l", "i", "n", "e", "a", "r", "-", "g", "r", "a", "d", "i", "e", "n", "t", "(", "4", "5", "d", "e", "g", ",", " ", "#", "f", "f", "0", "0", "0", "0", ",", " ", "#", "0", "0", "f", "f", "0", "0", ")">>,
     syntax |-> "gradient", alpha |-> <<1, 1>>,
     head |-> <<>>,
     name |-> <<"l", "i", "n", "e", "a", "r", "-", "g", "r", "a", "d", "i", "e", "n", "t">>, args |-> <<[pre |-> <<"4", "5", "d", "e", "g">>, head |-> <<>>, post |-> <<>>], [pre |-> <<>>, head |-> <<"r", "g", "b", "a", "(", "2", "5", "5", ",", " ", "0", ",", " ", "0", ",", " ">>, post |-> <<>>], [pre |-> <<>>, head |-> <<"r", "g", "b", "a", "(", "0", ",", " ", "2", "5", "5", ",", " ", "0", ",", " ">>, post |-> <<>>]>>],
    [text |-> <<"l", "i", "n", "e", "a", "r", "-", "g", "r", "a", "d", "i", "e", "n", "t", "(", "t", "o", " ", "r", "i", "g", "h", "t", ",", " ", "r", "g", "b", "(", "2", "5", "5", ",", " ", "0", ",", " ", "0", ")", " ", "0", "%", ",", " ", "r", "g", "b", "(", "0", ",", " ", "0", ",", " ", "2", "5", "5", ")", " ", "1", "0", "0", "%", ")">>,
     core |-> <<"l", "i", "n", "e", "a", "r", "-", "g", "r", "a", "d", "i", "e", "n", "t", "(", "t", "o", " ", "r", "i", "g", "h", "t", ",", " ", "r", "g", "b", "(", "2", "5", "5", ",", " ", "0", ",", " ", "0", ")", " ", "0", "%", ",", " ", "r", "g", "b", "(", "0", ",", " ", "0", ",", " ", "2", "5", "5", ")", " ", "1", "0", "0", "%", ")">>,
     syntax |-> "gradient", alpha |-> <<1, 1>>,
     head |-> <<>>,
     name |-> <<"l", "i", "n", "e", "a", "r", "-", "g", "r", "a", "d", "i", "e", "n", "t">>, args |-> <<[pre |-> <<"t", "o", " ", "r", "i", "g", "h", "t">>, head |-> <<>>, post |-> <<>>], [pre |-> <<>>, head |-> <<"r", "g", "b", "a", "(", "2", "5", "5", ",", " ", "0", ",", " ", "0", ",", " ">>, post |-> <<" ", "0", "%">>], [pre |-> <<>>, head |-> <<"r", "g", "b", "a", "(", "0", ",", " ", "0", ",", " ", "2", "5", "5", ",", " ">>, post |-> <<" ", "1", "0", "0", "%">>]>>],
    [text |-> <<"r", "a", "d", "i", "a", "l", "-", "g", "r", "a", "d", "i", "e", "n", "t", "(", "c", "i", "r", "c", "l", "e", ",", " ", "#", "f", "0", "0", ",", " ", "h", "s", "l", "(", "1", "2", "0", ",", " ", "5", "0", "%", ",", " ", "5", "0", "%", ")", " ", "8", "0", "%", ")">>,
     core |-> <<"r", "a", "d", "i", "a", "l", "-", "g", "r", "a", "d", "i", "e", "n", "t", "(", "c", "i", "r", "c", "l", "e", ",", " ", "#", "f", "0", "0", ",", " ", "h", "s", "l", "(", "1", "2", "0", ",", " ", "5", "0", "%", ",", " ", "5", "0", "%", ")", " ", "8", "0", "%", ")">>,
     syntax |-> "gradient", alpha |-> <<1, 1>>,
     head |-> <<>>,
     name |-> <<"r", "a", "d", "i", "a", "l", "-", "g", "r", "a", "d", "i", "e", "n", "t">>, args |-> <<[pre |-> <<"c", "i", "r", "c", "l", "e">>, head |-> <<>>, post |-> <<>>], [pre |-> <<>>, head |-> <<"r", "g", "b", "a", "(", "2", "5", "5", ",", " ", "0", ",", " ", "0", ",", " ">>, post |-> <<>>], [pre |-> <<>>, head |-> <<"h", "s", "l", "a", "(", "1", "2", "0", ",", " ", "5", "0", "%", ",", " ", "5", "0", "%", ",", " ">>, post |-> <<" ", "8", "0", "%">>]>>],
    [text |-> <<"c", "o", "n", "i", "c", "-", "g", "r", "a", "d", "i", "e", "n", "t", "(", "#", "f", "f", "f", ",", " ", "#", "0", "0", "0", ")">>,
     core |-> <<"c", "o", "n", "i", "c", "-", "g", "r", "a", "d", "i", "e", "n", "t", "(", "#", "f", "f", "f", ",", " ", "#", "0", "0", "0", ")">>,
     syntax |-> "gradient", alpha |-> <<1, 1>>,
     head |-> <<>>,
     name |-> <<"c", "o", "n", "i", "c", "-", "g", "r", "a", "d", "i", "e", "n", "t">>, args |-> <<[pre |-> <<>>, head |-> <<"r", "g", "b", "a", "(", "2", "5", "5", ",", " ", "2", "5", "5", ",", " ", "2", "5", "5", ",", " ">>, post |-> <<>>], [pre |-> <<>>, head |-> <<"r", "g", "b", "a", "(", "0", ",", " ", "0", ",", " ", "0", ",", " ">>, post |-> <<>>]>>],
    [text |-> <<"r", "e", "p", "e", "a", "t", "i", "n", "g", "-", "l", "i", "n", "e", "a", "r", "-", "g", "r", "a", "d", "i", "e", "n", "t", "(", "#", "a", "b", "c", " ", "1", "0", "%", ",", " ", "#", "d", "d", "e", "e", "f", "f", " ", "2", "0", "%", ")">>,
     core |-> <<"r", "e", "p", "e", "a", "t", "i", "n", "g", "-", "l", "i", "n", "e", "a", "r", "-", "g", "r", "a", "d", "i", "e", "n", "t", "(", "#", "a", "b", "c", " ", "1", "0", "%", ",", " ", "#", "d", "d", "e", "e", "f", "f", " ", "2", "0", "%", ")">>,
     syntax |-> "gradient", alpha |-> <<1, 1>>,
     head |-> <<>>,
     name |-> <<"r", "e", "p", "e", "a", "t", "i", "n", "g", "-", "l", "i", "n", "e", "a", "r", "-", "g", "r", "a", "d", "i", "e", "n", "t">>, args |-> <<[pre |-> <<>>, head |-> <<"r", "g", "b", "a", "(", "1", "7", "0", ",", " ", "1", "8", "7", ",", " ", "2", "0", "4", ",", " ">>, post |-> <<" ", "1", "0", "%">>], [pre |-> <<>>, head |-> <<"r", "g", "b", "a", "(", "2", "2", "1", ",", " ", "2", "3", "8", ",", " ", "2", "5", "5", ",", " ">>, post |-> <<" ", "2", "0", "%">>]>>] }

\* A gradient with an eight-digit hex stop
GradientsOfHex8 ==
  { [text |-> <<"l", "i", "n", "e", "a", "r", "-", "g", "r", "a", "d", "i", "e", "n", "t", "(", "4", "5", "d", "e", "g", ",", " ", "#", "f", "f", "0", "0", "0", "0", "8", "0", ",", " ", "#", "0", "0", "f", "f", "0", "0", ")">>,
     core |-> <<"l", "i", "n", "e", "a", "r", "-", "g", "r", "a", "d", "i", "e", "n", "t", "(", "4", "5", "d", "e", "g", ",", " ", "#", "f", "f", "0", "0", "0", "0", "8", "0", ",", " ", "#", "0", "0", "f", "f", "0", "0", ")">>,
     syntax |-> "gradient", alpha |-> <<1, 1>>,
     head |-> <<>>,
     name |-> <<"l", "i", "n", "e", "a", "r", "-", "g", "r", "a", "d", "i", "e", "n", "t">>, args |-> <<[pre |-> <<"4", "5", "d", "e", "g">>, head |-> <<>>, post |-> <<>>], [pre |-> <<>>, head |-> <<"r", "g", "b", "a", "(", "2", "5", "5", ",", " ", "0", ",", " ", "0", ",", " ">>, post |-> <<>>], [pre |-> <<>>, head |-> <<"r", "g", "b", "a", "(", "0", ",", " ", "2", "5", "5", ",", " ", "0", ",", " ">>, post |-> <<>>]>>] }

Colours == AlphaColours \cup SolidColours \cup OtherColours

\* The alphas the functions are called with, in thousandths; 300 is the default
Alphas == {300, 500, 1000}

\* The platforms of the canvas panel: with and without WebGL2, with every
\* combination of shaders that compile and programs that link
CanvasPlatforms ==
  [webgl2 : BOOLEAN, compiles : [Shaders -> BOOLEAN], links : [Programs -> BOOLEAN]]

----------------------------------------------------------------------------
(* Spec: up to MaxInstances panels mount, change group and unmount *)

GroupProps == {[DefaultProps EXCEPT !.instanceGroup = g] : g \in Groups}

Init == InitWith(DefaultEnv, DefaultChain)

MountPanel == \E i \in Instances, pr \in GroupProps : Mount(i, pr)
ChangeGroup == \E i \in Instances, pr \in GroupProps : Rerender(i, pr)
UnmountPanel == \E i \in Instances : Unmount(i)

Next == MountPanel \/ ChangeGroup \/ UnmountPanel

Spec == Init /\ [][Next]_vars

----------------------------------------------------------------------------
(* SpecLife: the whole life of one panel, with every prop change that      *)
(* re-runs an effect and every event an effect listens to                  *)

\* The registrations of a panel are its own closures: one panel shows them all
LifeInstances == {1}

LifeProps ==
  {[DefaultProps EXCEPT !.instanceGroup = g, !.qualityPreset = q, !.autoTextColor = a,
                        !.autoTextColorMode = m, !.hasChildren = h] :
     g \in Groups, q \in {"auto", "high"}, a \in BOOLEAN,
     m \in {"global", "perPixel"}, h \in BOOLEAN}

InitLife ==
  \E l \in BOOLEAN, chain \in {DefaultChain, <<SemiWhite, Transparent, Transparent>>} :
     InitWith([DefaultEnv EXCEPT !.mqAddEventListener = l], chain)

LifeMount == \E i \in LifeInstances, pr \in LifeProps : Mount(i, pr)
LifeRerender == \E i \in LifeInstances, pr \in LifeProps : Rerender(i, pr)
LifeUnmount == \E i \in LifeInstances : Unmount(i)
LifeResize == WindowResize(env.innerWidth)
LifeDensity == \E d \in {10, 20} : DensityChange(d)
LifeScroll == Scroll
LifePointerMove == PointerMove
LifeContentChange == \E i \in LifeInstances : ContentChange(i)
LifeFrame == \E i \in LifeInstances : Frame(i)

NextLife ==
  \/ LifeMount \/ LifeRerender \/ LifeUnmount
  \/ LifeResize \/ LifeDensity \/ LifeScroll \/ LifePointerMove
  \/ LifeContentChange \/ LifeFrame

SpecLife == InitLife /\ [][NextLife]_vars

----------------------------------------------------------------------------
(* SpecQuality: one panel on every device, with every quality setting *)

Widths == {600, 800, 1000, 1920}
Densities == {20, 25, 30}
CoreCounts == {0, 3, 4, 8}        \* 0: navigator.hardwareConcurrency is undefined
Memories == {0, 4, 8}             \* 0: navigator.deviceMemory is undefined

Envs(cores, mems) ==
  {[innerWidth |-> w, devicePixelRatio |-> d, hardwareConcurrency |-> c,
    deviceMemory |-> m, reducedMotion |-> rm, mqAddEventListener |-> TRUE] :
     w \in Widths, d \in Densities, c \in cores, m \in mems, rm \in BOOLEAN}

OverrideSamples ==
  {NoOverrides,
   [f \in {"resolutionScale", "fpsCap"} |-> IF f = "fpsCap" THEN 1000 ELSE 0],
   [f \in {"scaleMultiplier", "blurMultiplier"} |-> IF f = "scaleMultiplier" THEN 1000000 ELSE -500],
   [resolutionScale |-> 450, scaleMultiplier |-> 900, blurMultiplier |-> 700, fpsCap |-> 50]}

QualityProps ==
  {[DefaultProps EXCEPT !.qualityPreset = q, !.preferPerformance = pp, !.qualityOverrides = ov] :
     q \in {"auto", "low", "medium", "high"}, pp \in BOOLEAN, ov \in OverrideSamples}

\* A weak and a strong machine reach every tier the heuristic can give
InitQuality == \E e \in Envs({0, 8}, {8}) : InitWith(e, DefaultChain)

QualityMount == \E pr \in QualityProps : Mount(1, pr)
QualityRerender == \E pr \in QualityProps : Rerender(1, pr)
QualityUnmount == Unmount(1)
QualityResize == \E w \in Widths : WindowResize(w)
QualityDensity == \E d \in Densities : DensityChange(d)
QualityMotion == \E m \in BOOLEAN : MotionPreference(m)

NextQuality ==
  \/ QualityMount \/ QualityRerender \/ QualityUnmount
  \/ QualityResize \/ QualityDensity \/ QualityMotion

SpecQuality == InitQuality /\ [][NextQuality]_vars

----------------------------------------------------------------------------
(* SpecDetect: detectDevicePreset applied on every device, with and        *)
(* without a window and a working matchMedia                               *)

Platforms ==
  {[Browser(env) EXCEPT !.hasWindow = w, !.matchMedia = mm] :
     w \in BOOLEAN, mm \in {"ok", "missing", "throws"}}

InitDetect == \E e \in Envs(CoreCounts, Memories) : InitWith(e, DefaultChain)

DetectPreset == \E p \in Platforms, pp \in BOOLEAN : Detect(p, pp)
DetectMotion == \E m \in BOOLEAN : MotionPreference(m)

NextDetect == DetectPreset \/ DetectMotion

SpecDetect == InitDetect /\ [][NextDetect]_vars

----------------------------------------------------------------------------
(* SpecText: one panel in global auto-text-colour mode under every chain   *)
(* of ancestor backgrounds                                                 *)

TextProps ==
  {[DefaultProps EXCEPT !.autoTextColor = a, !.textOnDark = c[1], !.textOnLight = c[2]] :
     a \in BOOLEAN, c \in {<<"#ffffff", "#111111">>, <<"#f0f0f0", "#000000">>}}

InitText == \E chain \in Chains : InitWith(DefaultEnv, chain)

TextMount == \E pr \in TextProps : Mount(1, pr)
TextRerender == \E pr \in TextProps : Rerender(1, pr)
TextUnmount == Unmount(1)
TextScroll == Scroll
TextResize == WindowResize(env.innerWidth)
TextBackground ==
  \E k \in 1..MaxDepth, c \in Backgrounds, byAttribute \in BOOLEAN :
     SetBackground(k, c, byAttribute)

NextText ==
  \/ TextMount \/ TextRerender \/ TextUnmount
  \/ TextScroll \/ TextResize \/ TextBackground

SpecText == InitText /\ [][NextText]_vars

----------------------------------------------------------------------------
(* SpecMap: one panel of every size, tier and radius, resized and          *)
(* re-measured while a neighbour of the same group comes and goes          *)

BoxWidths == {0, 2, 400}
BoxHeights == {0, 30, 200}
Radii == {50, 500}

MapProps ==
  {[DefaultProps EXCEPT !.qualityPreset = q, !.radius = r] :
     q \in {"auto", "low", "medium", "high"}, r \in Radii}

NeighbourProps == [DefaultProps EXCEPT !.qualityPreset = "medium"]
Neighbours == {2}

\* A machine the heuristic rates 'desktop' when wide and 'mobile' when narrow
MapEnv == [DefaultEnv EXCEPT !.hardwareConcurrency = 4, !.deviceMemory = 4]

InitMap ==
  \E w \in BoxWidths, h \in BoxHeights :
     /\ InitCore(MapEnv, DefaultChain)
     /\ InitBoxes([DefaultBoxes EXCEPT ![1] = <<w, h>>])
     /\ InitCalls(DefaultPlatform)

MapMount == \E pr \in MapProps : Mount(1, pr)
MapRerender == \E pr \in MapProps : Rerender(1, pr)
MapUnmount == Unmount(1)
MapMeasure == \E w \in BoxWidths, h \in BoxHeights : Measure(1, w, h)
MapResize == \E w \in {600, 1920} : WindowResize(w)
MapNeighbourMount == \E j \in Neighbours : Mount(j, NeighbourProps)
MapNeighbourUnmount == \E j \in Neighbours : Unmount(j)

NextMap ==
  \/ MapMount \/ MapRerender \/ MapUnmount \/ MapMeasure \/ MapResize
  \/ MapNeighbourMount \/ MapNeighbourUnmount

SpecMap == InitMap /\ [][NextMap]_vars

----------------------------------------------------------------------------
(* SpecGlass: the glass fill of the panel and of the canvas panel for       *)
(* every glassColor, with and without a background, at several frosts      *)

GlassColors == Colours \cup {NotPassed}
GlassBackgrounds == {Undefined, <<"#", "f", "f", "0", "0", "0", "0">>, <<"u", "r", "l", "(", "a", ".", "p", "n", "g", ")">>}
Frosts == {100, 0, 500}

GlassPanel ==
  \E c \in GlassColors, b \in GlassBackgrounds, frost \in Frosts :
     Call([NoCall EXCEPT !.fn = "resolvedGlassBackground", !.sample = c, !.background = b,
                         !.frost = frost,
                         !.result = resolvedGlassBackground(c.text, b, frost)])

GlassCanvas ==
  \E c \in GlassColors, frost \in Frosts :
     Call([NoCall EXCEPT !.fn = "getResolvedGlassBackground", !.sample = c, !.frost = frost,
                         !.result = getResolvedGlassBackground(c.text, frost)])

NextGlass == GlassPanel \/ GlassCanvas

SpecGlass == Init /\ [][NextGlass]_vars

----------------------------------------------------------------------------
(* SpecColor: the colour-string functions applied to colours of every      *)
(* syntax, to gradients and to image references                            *)

BackgroundValues == Colours \cup Gradients \cup UrlBackgrounds \cup {NotPassed}

ColorIsSemiTransparent ==
  \E c \in Colours \cup UrlBackgrounds :
     Call([NoCall EXCEPT !.fn = "isSemiTransparentColor", !.sample = c,
                         !.result = isSemiTransparentColor(c.text)])

ColorAddTransparency ==
  \E c \in Colours \cup UrlBackgrounds \cup Gradients, alpha \in Alphas :
     Call([NoCall EXCEPT !.fn = "addTransparencyToColor", !.sample = c, !.alpha = alpha,
                         !.first = addTransparencyToColor(c.text, alpha),
                         !.result = addTransparencyToColor(c.text, alpha)])

\* addTransparencyToColor applied to its own result at the same alpha
ColorReapply ==
  /\ lastCall.fn = "addTransparencyToColor"
  /\ ~lastCall.again
  /\ Call([lastCall EXCEPT !.again = TRUE,
                           !.result = addTransparencyToColor(lastCall.first, lastCall.alpha)])

ColorProcessBackground ==
  \E c \in BackgroundValues, alpha \in Alphas :
     Call([NoCall EXCEPT !.fn = "processBackground", !.sample = c, !.alpha = alpha,
                         !.result = processBackground(c.text, alpha)])

ColorGradient ==
  \E c \in Gradients \cup GradientsOfHex8 \cup SolidColours \cup UrlBackgrounds, alpha \in Alphas :
     Call([NoCall EXCEPT !.fn = "addTransparencyToGradient", !.sample = c, !.alpha = alpha,
                         !.result = addTransparencyToGradient(c.text, alpha)])

NextColor ==
  \/ ColorIsSemiTransparent
  \/ ColorAddTransparency
  \/ ColorReapply
  \/ ColorProcessBackground
  \/ ColorGradient

SpecColor == Init /\ [][NextColor]_vars

----------------------------------------------------------------------------
(* SpecCanvas: the canvas panel on every platform, with and without a      *)
(* backdrop                                                                *)

InitCanvas ==
  \E platform \in CanvasPlatforms :
     InitCore(DefaultEnv, DefaultChain) /\ InitBoxes(DefaultBoxes) /\ InitCalls(platform)

NextCanvas ==
  \/ \E b \in BOOLEAN : CanvasMount(b)
  \/ \E b \in BOOLEAN : CanvasBackdrop(b)
  \/ CanvasUnmount

SpecCanvas == InitCanvas /\ [][NextCanvas]_vars

----------------------------------------------------------------------------
(* SpecBroadcast: callbacks register with a group and unregister while any  *)
(* of the listeners may throw                                              *)

Callbacks == {1, 2, 3}

NextBroadcast ==
  \/ \E cb \in Callbacks, g \in Groups, faulty \in SUBSET Callbacks :
        RegisterCallback(cb, g, faulty)
  \/ \E cb \in Callbacks, faulty \in SUBSET Callbacks : UnregisterCallback(cb, faulty)

SpecBroadcast == Init /\ [][NextBroadcast]_vars

----------------------------------------------------------------------------
(* SpecThree: the two Three.js panels mount, render frames, are resized,    *)
(* change their sources and unmount                                        *)

NextThree ==
  \/ \E b \in Backends, i \in BOOLEAN, bg \in BOOLEAN : ThreeMount(b, i, bg)
  \/ \E b \in Backends, i \in BOOLEAN, bg \in BOOLEAN : ThreeRerender(b, i, bg)
  \/ \E b \in Backends : ThreeFrame(b)
  \/ ThreeResize
  \/ \E b \in Backends : ThreeUnmount(b)

SpecThree == Init /\ [][NextThree]_vars

----------------------------------------------------------------------------
(* SpecRing: the canvas panel with a backdrop at several sizes, radii,      *)
(* borders and screen densities                                            *)

CanvasSizes == {20, 200, 400}
CanvasRadii == {0, 8, DEFAULTS_radius}
CanvasBorders == {0, DEFAULTS_border, 100}
CanvasDensities == {0, 10, 15, 30}

NextRing ==
  \/ \E b \in BOOLEAN : CanvasMount(b)
  \/ \E b \in BOOLEAN : CanvasBackdrop(b)
  \/ \E w \in CanvasSizes, h \in CanvasSizes, r \in CanvasRadii, b \in CanvasBorders :
        CanvasProps(w, h, r, b)
  \/ \E d \in CanvasDensities : CanvasDensity(d)
  \/ CanvasUnmount

SpecRing == Init /\ [][NextRing]_vars

----------------------------------------------------------------------------
(* SpecPixel: one panel with children whose autoTextColor, mode and         *)
(* selector change while text elements come and go and events arrive       *)

PixelInstances == {1}

PixelProps ==
  {[DefaultProps EXCEPT !.autoTextColor = a, !.autoTextColorMode = m,
                        !.perPixelTargetSelector = sel] :
     a \in BOOLEAN, m \in {"global", "perPixel"}, sel \in Selectors}

PixelMount == \E i \in PixelInstances, pr \in PixelProps : Mount(i, pr)
PixelRerender == \E i \in PixelInstances, pr \in PixelProps : Rerender(i, pr)
PixelUnmount == \E i \in PixelInstances : Unmount(i)
PixelAttach == \E i \in PixelInstances, e \in ElementSet : DomAttach(i, e)
PixelDetach == \E i \in PixelInstances, e \in ElementSet : DomDetach(i, e)
PixelResize == WindowResize(env.innerWidth)
PixelScroll == Scroll
PixelPointerMove == PointerMove
PixelContentChange == \E i \in PixelInstances : ContentChange(i)
PixelFrame == \E i \in PixelInstances : Frame(i)

NextPixel ==
  \/ PixelMount \/ PixelRerender \/ PixelUnmount
  \/ PixelAttach \/ PixelDetach
  \/ PixelResize \/ PixelScroll \/ PixelPointerMove
  \/ PixelContentChange \/ PixelFrame

SpecPixel == Init /\ [][NextPixel]_vars

----------------------------------------------------------------------------
(* Properties *)

\* C1: an instance that is not mounted holds no registration: no window or
\* media-query listener, no connected ResizeObserver or MutationObserver and
\* no listener in any instance group is left of it, whatever renders and
\* events came before.
C1_NoRegistrationAfterUnmount ==
  \A i \in Instances :
     ~mounted[i] =>
        /\ \A r \in registry : r.owner # i
        /\ \A g \in DOMAIN LG_GROUPS : i \notin LG_GROUPS[g].listeners

\* The panel has gone after its global effect sampled and its group cleanup ran
C1_Witness ==
  /\ ~mounted[1]
  /\ lastBroadcast.op = "unregister" /\ lastBroadcast.cb = 1
  /\ lastSample.by = 1
  /\ lastDetect.called
  /\ env.mqAddEventListener

\* m is max(0.7, 1 / sqrt(n)) in thousandths, rounded down
IsGroupMultiplier(m, n) ==
  \/ m >= 700 /\ m * m * n <= 1000000 /\ (m + 1) * (m + 1) * n > 1000000
  \/ m = 700 /\ 700 * 700 * n > 1000000

LiveInGroup(g) == {j \in Instances : mounted[j] /\ props[j].instanceGroup = g}

\* C2: every mounted instance holds the multiplier max(0.7, 1/sqrt(n)) of the
\* number n of mounted instances whose instanceGroup is its own.
C2_HeldMultiplierMatchesGroup ==
  \A i \in Instances :
     mounted[i] =>
        IsGroupMultiplier(groupMultiplier[i],
                          Cardinality(LiveInGroup(props[i].instanceGroup)))

\* Two panels are left in a group after a third left it, and hold 0.707
C2_Witness ==
  /\ lastBroadcast.op = "unregister"
  /\ Cardinality(LiveInGroup("default")) = 2
  /\ \A i \in LiveInGroup("default") : groupMultiplier[i] = 707

\* C3: a broadcast for a group of count >= 1 instances carries 1.0 for one,
\* 0.707 for two and 0.7 from three on, every listener of the group holds it,
\* and a registration into an entry that was kept at count 0 delivers 1.0 to
\* the instance that registered.
C3_BroadcastMultiplier ==
  (lastBroadcast.op # "none" /\ lastBroadcast.count >= 1) =>
     /\ lastBroadcast.multiplier =
          (IF lastBroadcast.count = 1 THEN 1000
           ELSE IF lastBroadcast.count = 2 THEN 707 ELSE 700)
     /\ \A i \in lastBroadcast.to : groupMultiplier[i] = lastBroadcast.multiplier
     /\ (lastBroadcast.op = "register" /\ lastBroadcast.existed /\ lastBroadcast.count = 1)
          => (lastBroadcast.multiplier = 1000 /\ groupMultiplier[lastBroadcast.cb] = 1000)

\* One instance registered again into an entry kept at count 0, while the
\* other group holds two
C3_Witness ==
  /\ lastBroadcast.op = "register" /\ lastBroadcast.existed /\ lastBroadcast.count = 1
  /\ groupMultiplier[lastBroadcast.cb] = 1000
  /\ \E g \in DOMAIN LG_GROUPS : g # lastBroadcast.group /\ LG_GROUPS[g].count = 2

\* C4: the count of every group is not negative, is the size of its listener
\* set and is the number of instances that registered in it and have not
\* called the function registerInstance returned.
C4_CountMatchesListeners ==
  \A g \in DOMAIN LG_GROUPS :
     /\ LG_GROUPS[g].count >= 0
     /\ LG_GROUPS[g].count = Cardinality(LG_GROUPS[g].listeners)
     /\ LG_GROUPS[g].count = Cardinality({i \in Instances : unregister[i] = g})

\* One entry is kept at count 0 while the other group holds every panel
C4_Witness ==
  \E g, h \in DOMAIN LG_GROUPS :
     /\ LG_GROUPS[g].count = 0 /\ LG_GROUPS[g].listeners = {}
     /\ LG_GROUPS[h].count = MaxInstances

\* C5: while qualityPreset names a tier, the quality state names that tier
\* and holds the tier's base value in every field that has no override.
C5_ExplicitTierKept ==
  \A i \in Instances :
     (mounted[i] /\ props[i].qualityPreset # "auto") =>
        /\ quality[i].preset = props[i].qualityPreset
        /\ \A f \in QualityFields \ DOMAIN props[i].qualityOverrides :
              quality[i].options[f] = QUALITY_PRESETS[props[i].qualityPreset][f]

Clamped(x, lo, hi) == IF x < lo THEN lo ELSE IF x > hi THEN hi ELSE x

\* C7: every field with an override holds the override brought into the
\* field's bounds, whatever tier the quality state names; every other field
\* holds the base value of the tier the quality state names.
C7_OverridesWin ==
  \A i \in Instances :
     mounted[i] =>
        \A f \in QualityFields :
           quality[i].options[f] =
             (IF f \in DOMAIN props[i].qualityOverrides
              THEN Clamped(props[i].qualityOverrides[f], ClampBounds[f][1], ClampBounds[f][2])
              ELSE QUALITY_PRESETS[quality[i].preset][f])

\* After a resize replaced the tier, the overrides 0 and 1000 still give 0.3 and 60
C7_Witness ==
  /\ mounted[1]
  /\ props[1].qualityPreset = "high" /\ quality[1].preset = "mobile"
  /\ "fpsCap" \in DOMAIN props[1].qualityOverrides
  /\ props[1].qualityOverrides["fpsCap"] = 1000
  /\ props[1].qualityOverrides["resolutionScale"] = 0
  /\ quality[1].options.fpsCap = 60
  /\ quality[1].options.resolutionScale = 300
  /\ quality[1].options.scaleMultiplier = 850

\* C8: a call of detectDevicePreset on a platform that reports the
\* reduced-motion preference returns 'low', whatever the score.
C8_ReducedMotionGivesLow ==
  (lastDetect.called /\ lastDetect.reducedMotion) => lastDetect.result = "low"

\* The score alone would give 'desktop'
C8_Witness ==
  /\ lastDetect.called /\ lastDetect.reducedMotion
  /\ lastDetect.scored = "desktop"
  /\ lastDetect.result = "low"

\* The background of a node has an alpha above 0
OpaqueBg(c) == c.syntax = "rgb" \/ (c.syntax = "rgba" /\ c.a[1] > 0)
ColourOf(c) ==
  [r |-> c.r, g |-> c.g, b |-> c.b, a |-> IF c.syntax = "rgb" THEN <<1, 1>> ELSE c.a]

\* The last sample was taken of the current chain by a panel that is still
\* in global mode
SampleCurrent ==
  /\ lastSample.fresh
  /\ mounted[lastSample.by]
  /\ globalActive(props[lastSample.by])

\* C9: when no node of the chain, body included, has a background with an
\* alpha above 0, the text colour is textOnLight.
C9_NoOpaqueGivesTextOnLight ==
  (SampleCurrent /\ \A k \in 1..Len(ancestors) : ~OpaqueBg(ancestors[k])) =>
     effectiveTextColor[lastSample.by] = props[lastSample.by].textOnLight

OnlyOutermostNearBlack(chain) ==
  /\ chain[Len(chain)] = NearBlack
  /\ \A k \in 1..(Len(chain) - 1) : chain[k] = Transparent

\* C10: the sample is the colour of the nearest node whose background has an
\* alpha above 0, whatever lies beyond it; when only the outermost node has
\* one, rgb(10,10,10), the sample is that colour and the text colour is
\* textOnDark.
C10_NearestOpaqueSampled ==
  SampleCurrent =>
     /\ \A k \in 1..Len(ancestors) :
           (OpaqueBg(ancestors[k]) /\ \A j \in 1..(k - 1) : ~OpaqueBg(ancestors[j]))
              => lastSample.bg = ColourOf(ancestors[k])
     /\ OnlyOutermostNearBlack(ancestors) =>
           /\ lastSample.bg = [r |-> 10, g |-> 10, b |-> 10, a |-> <<1, 1>>]
           /\ lastSample.color = props[lastSample.by].textOnDark
           /\ effectiveTextColor[lastSample.by] = props[lastSample.by].textOnDark

\* Two transparent ancestors lie between the panel and the dark root
C10_Witness ==
  /\ SampleCurrent
  /\ Len(ancestors) = 3
  /\ OnlyOutermostNearBlack(ancestors)
  /\ effectiveTextColor[1] = props[1].textOnDark
  /\ props[1].textOnDark # props[1].textOnLight

\* The map of the last render of instance i
MapOf(i) == displacementDataUri[i].map

\* s of the claim, in millionths: the tier's resolutionScale times the group
\* multiplier, brought into [0.3, 0.8]
ScaleOf(i) ==
  Clamped(QUALITY_PRESETS[quality[i].preset].resolutionScale * groupMultiplier[i],
          300000, 800000)

\* n is floor(x * s) for s in millionths
IsFloorOfScaled(n, x, s) == n * 1000000 <= x * s /\ x * s < (n + 1) * 1000000

\* The example of the claim: 400 by 200, border 0.05, s = 0.5 gives 200 by 100
\* with inset 2.5
MapExample(i) ==
  (dimensions[i] = [width |-> 400, height |-> 200] /\ props[i].border = 50
   /\ ScaleOf(i) = 500000)
    => (MapOf(i).width = 200 /\ MapOf(i).height = 100 /\ MapOf(i).borderWidth = 5000)

\* C11 as stated: the map is floor(width * s) by floor(height * s) with inset
\* min(mapWidth, mapHeight) * border * 0.5, for every panel.
C11_MapIsFloorOfScaled ==
  \A i \in Instances :
     mounted[i] =>
        /\ IsFloorOfScaled(MapOf(i).width, dimensions[i].width, ScaleOf(i))
        /\ IsFloorOfScaled(MapOf(i).height, dimensions[i].height, ScaleOf(i))
        /\ MapOf(i).borderWidth = Min(MapOf(i).width, MapOf(i).height) * props[i].border
        /\ MapExample(i)

\* C11 amended: each side of the map is floor(side * s), and 1 where that is 0;
\* s is the product of the tier's resolutionScale and the group multiplier
\* brought into [0.3, 0.8]; the inset is min(mapWidth, mapHeight) * border * 0.5;
\* 400 by 200 with border 0.05 at s = 0.5 gives 200 by 100 with inset 2.5.
C11_MapIsFloorOfScaledAtLeastOne ==
  \A i \in Instances :
     mounted[i] =>
        /\ \E n \in 0..dimensions[i].width :
              /\ IsFloorOfScaled(n, dimensions[i].width, ScaleOf(i))
              /\ MapOf(i).width = (IF n = 0 THEN 1 ELSE n)
        /\ \E n \in 0..dimensions[i].height :
              /\ IsFloorOfScaled(n, dimensions[i].height, ScaleOf(i))
              /\ MapOf(i).height = (IF n = 0 THEN 1 ELSE n)
        /\ MapOf(i).borderWidth = Min(MapOf(i).width, MapOf(i).height) * props[i].border
        /\ MapExample(i)

\* A panel 2 px wide beside a neighbour: 2 * 0.3535 is below 1 and the map is
\* 1 wide
C11_Witness ==
  /\ mounted[1] /\ mounted[2]
  /\ dimensions[1].width = 2
  /\ quality[1].preset = "medium" /\ groupMultiplier[1] = 707
  /\ MapOf(1).width = 1
  /\ MapOf(1).height = (dimensions[1].height * 353500) \div 1000000

\* C12: the corner radius written into the map is the CSS-visible radius
\* min(radius, width/2, height/2) scaled by the factor s that scales the map's
\* sides, and it does not exceed half the map's shorter side.
C12_MapRadiusIsScaledCssRadius ==
  \A i \in Instances :
     mounted[i] =>
        /\ effectiveRadiusPx(props[i].radius, dimensions[i])
             <= Min(dimensions[i].width, dimensions[i].height)
        /\ MapOf(i).rx * 1000000
             = 2 * effectiveRadiusPx(props[i].radius, dimensions[i]) * ScaleOf(i)
        /\ MapOf(i).rx <= 2 * Min(MapOf(i).width, MapOf(i).height)

ZeroSided(rect) == rect[1] = 0 \/ rect[2] = 0

\* C13: both dimensions are above 0 in every state: the default 400 by 200
\* until a measurement with two non-zero sides, that measurement afterwards;
\* and a resize observation with a zero side changes neither the dimensions
\* nor the displacement map.
C13_ZeroMeasurementIgnored ==
  /\ [](\A i \in Instances :
          /\ dimensions[i].width > 0 /\ dimensions[i].height > 0
          /\ (mounted[i] /\ ~ZeroSided(box[i]))
                => dimensions[i] = [width |-> box[i][1], height |-> box[i][2]]
          /\ ~mounted[i] => dimensions[i] = [width |-> 400, height |-> 200])
  /\ [][\A i \in Instances :
          (mounted[i] /\ mounted'[i] /\ box'[i] # box[i] /\ ZeroSided(box'[i]))
             => /\ dimensions'[i] = dimensions[i]
                /\ displacementDataUri'[i] = displacementDataUri[i]]_vars

\* The panel was measured 2 by 30 and then 0 by 30: it keeps 2 by 30
C13_Witness ==
  /\ mounted[1]
  /\ box[1] = <<0, 30>>
  /\ dimensions[1] = [width |-> 2, height |-> 30]
  /\ displacementDataUri[1].dimensions = dimensions[1]

\* C20: after every step, whichever of a dimension update, a quality update
\* and a group broadcast it processed and in whatever order they came, the map
\* of the render is the map of the current dimensions, resolution scale and
\* group multiplier: no render keeps a map of an older value.
C20_MapOfCurrentState ==
  \A i \in Instances :
     mounted[i] =>
        /\ displacementDataUri[i].rendered
        /\ displacementDataUri[i].dimensions = dimensions[i]
        /\ displacementDataUri[i].resolutionScale = quality[i].options.resolutionScale
        /\ displacementDataUri[i].groupMultiplier = groupMultiplier[i]
        /\ MapOf(i) = displacementMap(dimensions[i], props[i].radius, props[i].border,
                                      quality[i].options.resolutionScale,
                                      groupMultiplier[i])

\* The panel was measured, a neighbour joined its group and the window was
\* narrowed: 'mobile' at 0.4 * 0.707, brought up to 0.3, of 400 by 200
C20_Witness ==
  /\ mounted[1] /\ mounted[2]
  /\ props[1].qualityPreset = "auto" /\ quality[1].preset = "mobile"
  /\ groupMultiplier[1] = 707
  /\ dimensions[1] = [width |-> 400, height |-> 200]
  /\ box[1] = <<0, 200>>
  /\ MapOf(1).width = 120 /\ MapOf(1).height = 60


\* The alpha a colour states is strictly between 0 and 1
SemiTransparent(c) ==
  /\ c.syntax \in {"rgba", "hsla", "hslSlash", "hex4", "hex8"}
  /\ 0 < c.alpha[1]
  /\ c.alpha[1] < c.alpha[2]

\* The decimal text of an alpha in thousandths
AlphaText(a) ==
  CASE a = 0 -> <<"0">> [] a = 100 -> <<"0", ".", "1">> [] a = 300 -> <<"0", ".", "3">> [] a = 500 -> <<"0", ".", "5">>
    [] a = 1000 -> <<"1">>

FrostDefault(frost) == <<"h", "s", "l", "(", "0", " ", "0", "%", " ", "1", "0", "0", "%", " ", "/", " ">> \o AlphaText(frost) \o <<")">>

GlassCalls == {"resolvedGlassBackground", "getResolvedGlassBackground"}

ShaderFailure(platform) ==
  \/ \E sh \in Shaders : ~platform.compiles[sh]
  \/ \E pg \in Programs : ~platform.links[pg]

\* C15 as stated: the draw effect of the canvas panel never throws; without
\* WebGL2, without a backdrop, or when a shader does not compile or a program
\* does not link, it returns and nothing is drawn.
C15_DrawEffectNeverThrows ==
  canvas.effect.ran =>
     /\ canvas.effect.threw = ""
     /\ (~canvas.platform.webgl2 \/ ~canvas.backdropSource \/ ShaderFailure(canvas.platform))
           => ~canvas.effect.drew


\* C16: isSemiTransparentColor returns true exactly for a colour in rgba(),
\* hsla(), hsl(... / a), #RGBA or #RRGGBBAA syntax whose alpha is strictly
\* between 0 and 1; it returns false for alpha 0, for alpha 1, for the
\* syntaxes without an alpha and for the empty string.
C16_SemiTransparentExactly ==
  lastCall.fn = "isSemiTransparentColor" =>
     lastCall.result = SemiTransparent(lastCall.sample)

\* isSemiTransparentColor accepted an eight-digit hex colour of alpha 254/255
C16_Witness ==
  /\ lastCall.fn = "isSemiTransparentColor"
  /\ lastCall.sample.syntax = "hex8"
  /\ lastCall.sample.alpha = <<254, 255>>
  /\ lastCall.result = TRUE


\* The text without its spaces
Unspaced(s) == SelectSeq(s, LAMBDA ch : ch # " ")

\* The explicit-alpha form of a colour given by the start of its rgba( or
\* hsla( value
AtAlpha(head, alpha) == head \o AlphaText(alpha) \o <<")">>

\* The arguments of a gradient with every colour at the alpha
RECURSIVE ExpectedArgs(_, _)
ExpectedArgs(args, alpha) ==
  IF args = <<>> THEN <<>>
  ELSE LET a == args[1]
           one == IF a.head = <<>> THEN a.pre ELSE a.pre \o AtAlpha(a.head, alpha) \o a.post
       IN IF Len(args) = 1 THEN one ELSE one \o <<",">> \o ExpectedArgs(Tail(args), alpha)

ExpectedGradient(c, alpha) == c.name \o <<"(">> \o ExpectedArgs(c.args, alpha) \o <<")">>

\* C17: processBackground returns a semi-transparent value unchanged;
\* otherwise it returns a gradient with every stop at the alpha; otherwise it
\* returns a url(...) reference unchanged; otherwise a colour in three- or
\* six-digit hex, rgb() or hsl() syntax comes out as the same colour at the
\* alpha.
C17_ProcessBackgroundDispatch ==
  lastCall.fn = "processBackground" =>
     LET c == lastCall.sample
     IN IF SemiTransparent(c) THEN lastCall.result = c.text
        ELSE IF c.syntax = "gradient"
             THEN Unspaced(lastCall.result) = Unspaced(ExpectedGradient(c, lastCall.alpha))
        ELSE IF c.syntax = "url" THEN lastCall.result = c.text
        ELSE IF c.syntax \in {"hex3", "hex6", "rgb", "hsl"}
             THEN Unspaced(lastCall.result) = Unspaced(AtAlpha(c.head, lastCall.alpha))
        ELSE TRUE

\* processBackground turned #ff0000 into rgba(255, 0, 0, 0.3)
C17_Witness ==
  /\ lastCall.fn = "processBackground"
  /\ lastCall.sample.text = <<"#", "f", "f", "0", "0", "0", "0">>
  /\ lastCall.alpha = 300
  /\ Unspaced(lastCall.result) = <<"r", "g", "b", "a", "(", "2", "5", "5", ",", "0", ",", "0", ",", "0", ".", "3", ")">>


\* The colour is in a syntax addTransparencyToColor parses
Parsable(c) == c.syntax \in {"hex3", "hex6", "rgb", "hsl"}

C18_GradientStopsAtAlpha ==
  lastCall.fn = "addTransparencyToGradient" =>
     IF lastCall.sample.syntax = "gradient"
     THEN Unspaced(lastCall.result)
            = Unspaced(ExpectedGradient(lastCall.sample, lastCall.alpha))
     ELSE lastCall.result = lastCall.sample.text


\* The effects of which the platform holds a registration of instance i
EffectsOf(i) == {r.effect : r \in {x \in registry : x.owner = i}}

\* C21: an instance holds registrations of the global sampling effect only
\* while autoTextColor is on in 'global' mode, and registrations of the tagging
\* and perPixel effects or a pending frame only while autoTextColor is on in
\* 'perPixel' mode, so a switch leaves nothing of the previous strategy; and no
\* step takes a sample for an instance that is in 'perPixel' mode.
C21_StrategyMatchesMode ==
  /\ [](\A i \in Instances :
          /\ "global" \in EffectsOf(i) =>
                mounted[i] /\ props[i].autoTextColor /\ props[i].autoTextColorMode = "global"
          /\ (EffectsOf(i) \cap {"tagging", "perPixel"} # {} \/ rafId[i] # 0) =>
                mounted[i] /\ props[i].autoTextColor /\ props[i].autoTextColorMode = "perPixel")
  /\ [][\A i \in Instances :
          (mounted'[i] /\ props'[i].autoTextColorMode = "perPixel") =>
             /\ effectiveTextColor'[i] = effectiveTextColor[i] \/ ~mounted[i]
             /\ lastSample' # lastSample => lastSample'.by # i]_vars

\* The panel sampled in 'global' mode, was switched to 'perPixel' and has a
\* frame pending
C21_Witness ==
  /\ mounted[1]
  /\ props[1].autoTextColor /\ props[1].autoTextColorMode = "perPixel"
  /\ lastSample.by = 1
  /\ rafId[1] # 0
  /\ EffectsOf(1) = {"quality", "dimensions", "tagging", "perPixel"}


\* The perPixel effect of instance i is set up
PerPixelOn(i) ==
  mounted[i] /\ props[i].autoTextColor /\ props[i].autoTextColorMode = "perPixel"

\* The number of entries of the sequence that are x
CountOf(seq, x) == Cardinality({k \in 1..Len(seq) : seq[k] = x})

\* The mirrors the instance holds and the mirrors it has in document.body are
\* one for each target and none for anything else
MirrorsMatchTargets(p, selector) ==
  \A e \in ElementSet :
     /\ CountOf(p.mirrors, e) = (IF e \in targets(p, selector) THEN 1 ELSE 0)
     /\ CountOf(p.body, e) = CountOf(p.mirrors, e)

\* C22: no element ever has two mirrors of the instance, an instance whose
\* perPixel effect is not set up has no mirror in the document, and after every
\* step in which updateMask ran (a frame, or the set-up of the effect) the
\* mirrors are in one-to-one correspondence with the current targets.
C22_MirrorsMatchTargets ==
  /\ [](\A i \in Instances :
          /\ \A e \in ElementSet : CountOf(pixel[i].body, e) <= 1
          /\ ~PerPixelOn(i) => pixel[i].body = <<>> /\ pixel[i].mirrors = <<>>)
  /\ [][\A i \in Instances :
          (/\ mounted'[i] /\ props'[i].autoTextColor
           /\ props'[i].autoTextColorMode = "perPixel"
           /\ \/ pixel'[i].frames < pixel[i].frames
              \/ ~PerPixelOn(i)
              \/ perPixelDeps(props'[i]) # perPixelDeps(props[i]))
          => MirrorsMatchTargets(pixel'[i], props'[i].perPixelTargetSelector)]_vars

\* A pass removed the mirror of an element that left the content and kept the
\* mirrors of the two targets that stayed
C22_Witness ==
  /\ PerPixelOn(1)
  /\ pixel[1].els["title"].id /\ ~pixel[1].els["title"].attached
  /\ pixel[1].mirrors = <<"note", "text">>
  /\ pixel[1].body = <<"note", "text">>
  /\ pixel[1].frames = 0


\* C25 as stated: once the perPixel effect of an instance is torn down, no
\* element of its content keeps the transparent colour the instance forced on
\* it, and none keeps the data-lg-autotext-auto tag.
C25_TeardownRestoresText ==
  \A i \in Instances :
     ~PerPixelOn(i) =>
        \A e \in ElementSet :
           pixel[i].els[e].attached =>
              ~pixel[i].els[e].transparent /\ ~pixel[i].els[e].auto


\* C27: an instance never has more than one animation frame pending and rafId
\* is nonzero exactly while one is; a pending frame runs updateMask once and
\* leaves none pending; while the perPixel effect is not set up no frame is
\* pending, and no step then forces a colour, sets the mask or adds a mirror.
C27_OneFramePending ==
  /\ [](\A i \in Instances :
          /\ pixel[i].frames <= 1
          /\ (pixel[i].frames = 1) = (rafId[i] # 0)
          /\ ~PerPixelOn(i) => pixel[i].frames = 0)
  /\ [][\A i \in Instances :
          /\ pixel'[i].frames < pixel[i].frames /\ mounted'[i] /\ PerPixelOn(i)'
               /\ perPixelDeps(props[i]) = perPixelDeps(props'[i])
               => /\ pixel'[i].frames = 0
                  /\ rafId'[i] = 0
                  /\ pixel'[i] = updateMask([pixel[i] EXCEPT !.frames = 0],
                                            props[i].perPixelTargetSelector)
          /\ ~PerPixelOn(i) /\ ~PerPixelOn(i)'
               => /\ pixel'[i].mirrors = pixel[i].mirrors
                  /\ pixel'[i].body = pixel[i].body
                  /\ pixel'[i].mask = pixel[i].mask
                  /\ \A e \in ElementSet :
                        pixel'[i].els[e].transparent
                          => pixel[i].els[e].transparent]_vars

\* A frame is pending for a perPixel panel that has already been asked to
\* update a second time.
C27_Witness ==
  /\ PerPixelOn(1)
  /\ pixel[1].frames = 1
  /\ rafId[1] # 0
  /\ pixel[1].mask
  /\ pixel[1].mirrors # <<>>


\* The ring width that the border prop gives: the code's expression with the
\* prop in the place of the default
RingOf(border, dpr, renderWidth, renderHeight) ==
  Max(0, Min(10 * dpr, (Min(renderWidth, renderHeight) * 50 * border) \div 1000))

\* C23 as stated: the border width given to the composite pass of a drawn
\* canvas panel is the one that its current border prop gives at its size (at
\* some screen density the draw may have seen).
C23_RingFollowsBorder ==
  canvas.mounted /\ canvas.effect.drew =>
     \E dpr \in 10..20 :
        canvas.effect.u_borderWidth
          = RingOf(canvas.border, dpr, renderSize(canvas.width, dpr),
                   renderSize(canvas.height, dpr))

\* The fragments of the drawn canvas panel, when its border width is above zero
Fragments ==
  IF canvas.mounted /\ canvas.effect.drew /\ canvas.effect.u_borderWidth > 0
  THEN {canvas.effect.pixels[s] : s \in Samples}
  ELSE {}

\* C24 as stated: a fragment outside the rounded rectangle (d > 0) is
\* discarded, a fragment in the ring (-bw <= d < 0) is drawn with border
\* colour, and a fragment deeper inside than the border width (d < -bw) is
\* drawn with no border colour: only the backdrop under the glass tint.
C24_CompositeClassifiesByDistance ==
  \A f \in Fragments :
     LET bw == canvas.effect.u_borderWidth
     IN /\ f.d > 0 => f.discard
        /\ f.d < 0 /\ f.d >= 0 - bw => ~f.discard /\ f.borderMask > 0
        /\ f.d < 0 - bw => ~f.discard /\ f.borderMask = 0


\* C30: in every broadcast each listener of the group is called, each one
\* that does not throw holds the multiplier afterwards, and no exception
\* leaves registerInstance or the returned function; the groups are then what
\* the same call leaves when no listener throws.
C30_ThrowingListenerIsContained ==
  /\ [](lastBroadcast.op # "none" =>
          /\ ~lastBroadcast.escaped
          /\ lastBroadcast.to = LG_GROUPS[lastBroadcast.group].listeners
          /\ \A i \in lastBroadcast.to \ lastBroadcast.threw :
                groupMultiplier[i] = lastBroadcast.multiplier)
  /\ [][LG_GROUPS' # LG_GROUPS =>
          LG_GROUPS' = (IF lastBroadcast'.op = "register"
                        THEN registerInstance(groupState, lastBroadcast'.group,
                                              lastBroadcast'.cb)
                        ELSE unregisterInstance(groupState, lastBroadcast'.group,
                                                lastBroadcast'.cb)).groups]_vars

\* The second callback of a group registered while the first one threw: the
\* second holds the multiplier of two panels, the first still its old one.
C30_Witness ==
  /\ lastBroadcast.op = "register"
  /\ lastBroadcast.count = 2
  /\ lastBroadcast.threw = {1}
  /\ lastBroadcast.to = {1, 2}
  /\ groupMultiplier[2] = 707
  /\ groupMultiplier[1] = 1000
  /\ unregister[2] = lastBroadcast.group


\* C26: while a panel stays mounted, a step calls its onQualityChanged exactly
\* when the step changes its quality state, and the preset and options of the
\* payload are then the state it holds after the step; mounting calls nothing.
C26_ReportedExactlyOnChange ==
  [][\A i \in Instances :
        /\ mounted[i] /\ mounted'[i] =>
             /\ (reported'[i].calls # reported[i].calls) = (quality'[i] # quality[i])
             /\ quality'[i] # quality[i] =>
                  /\ reported'[i].preset = quality'[i].preset
                  /\ reported'[i].options = quality'[i].options
                  /\ reported'[i].reason = "capability"
        /\ ~mounted[i] /\ mounted'[i] => reported'[i] = NoReport]_vars

\* A panel with an explicit tier whose state a resize has replaced by the
\* detected tier, and whose callback was told so.
C26_Witness ==
  /\ mounted[1]
  /\ props[1].qualityPreset = "high"
  /\ quality[1].preset # "high"
  /\ reported[1].calls = 1
  /\ reported[1].preset = quality[1].preset
  /\ reported[1].options = quality[1].options


\* The targets of the passes of a frame, in their order
TargetsOf(frame) == [k \in DOMAIN frame |-> frame[k].target[1]]

\* C28: in every frame of both panels no pass reads the target it renders
\* into, the targets alternate between A and B and the last pass renders to the
\* screen; no pass reads a disposed resource, and while a LiquidGlassThree
\* effect is set up its passes' inputs are the current targets, after any
\* number of resizes.
C28_NoPassReadsItsTarget ==
  \A b \in Backends :
     LET g == three[b]
     IN g.backend # "none" =>
          /\ \A k \in DOMAIN g.frame :
                /\ g.frame[k].target \notin g.frame[k].reads
                /\ g.frame[k].disposed = {}
          /\ TargetsOf(g.frame)
               = (IF b = "WebGLLiquidGlass"
                  THEN <<"targetA", "targetB", "targetA", "targetB", "screen">>
                  ELSE <<"targetA", "targetB", "targetA", "screen">>)
          /\ g.alive =>
               /\ {TargetA(g.resizes), TargetB(g.resizes)} \cap g.disposed = {}
               /\ b = "LiquidGlassThree" =>
                    g.uTexture = [darken |-> TargetA(g.resizes),
                                  lighten |-> TargetB(g.resizes),
                                  lens |-> TargetA(g.resizes)]

\* A LiquidGlassThree panel that has rendered a frame after its second resize:
\* the first two pairs of targets are disposed, the frame read the third.
C28_Witness ==
  LET g == three["LiquidGlassThree"]
  IN /\ g.alive
     /\ g.resizes = 2
     /\ {TargetA(0), TargetB(0), TargetA(1), TargetB(1)} \subseteq g.disposed
     /\ g.frame[2].reads = {TargetA(2)}
     /\ g.frame[3].reads = {TargetB(2)}
     /\ TargetA(2) \in g.frame[4].reads

\* The effect runs that have been torn down: by an unmount or by a later run
TornDown ==
  {[NoLifetime EXCEPT !.created = three[b].created, !.disposed = three[b].disposed,
                      !.twice = three[b].twice, !.rafId = three[b].rafId] :
     b \in {c \in Backends : ~three[c].alive /\ three[c].backend # "none"}}
  \cup {three[b].previous : b \in {c \in Backends : three[c].previous.created # {}}}

\* C29 as stated: of an effect run that has been torn down every resource it
\* created is disposed, none more than once, and no frame is requested.
C29_EverythingDisposedOnce ==
  \A l \in TornDown :
     /\ l.created \subseteq l.disposed
     /\ l.twice = {}
     /\ ~l.rafId

====
